---- MODULE Spec2Model ----
(***************************************************************************)
(* The execution and position-management engine of the trading bot:        *)
(*   - RiskManagerImpl   (src/bot/risk/manager.py)                         *)
(*   - TradingStrategy   (src/bot/exec/strategy.py)                        *)
(*   - PaperExecutor     (src/bot/exec/paper.py)                           *)
(*   - JupiterExecutor   (src/bot/exec/jupiter.py), as far as the Strategy *)
(*     sees it: the shape of its results and where it suspends.            *)
(*                                                                         *)
(* Numbers.  The code computes in floats; the model computes in integers:  *)
(*   USD amounts     whole dollars (sizes, P&L, liquidity, volume)         *)
(*   snapshot price  whole price units                                     *)
(*   fine price      1/10000 of a price unit (BpsDenominator), the unit of *)
(*                   every executed price, entry price and high-water mark *)
(*   stop price      1/100 of a fine price (PctDenominator), so that       *)
(*                   price * (1 - trailing_stop_pct) is exact              *)
(*   quantity        1/1000 of a token, rounded down                       *)
(*   time            ticks; a calendar day is DayLen ticks                 *)
(***************************************************************************)
EXTENDS Integers, Sequences, FiniteSets, TLC

VARIABLES
    now,                \* the wall clock (time.time / datetime.now), in ticks
    daily_pnl,          \* RiskManagerImpl._daily_pnl
    daily_start_time,   \* RiskManagerImpl._daily_start_time
    token_cooldowns,    \* RiskManagerImpl._token_cooldowns : mint -> time | NoTime
    active_positions,   \* RiskManagerImpl._active_positions
    position_sizes,     \* RiskManagerImpl._position_sizes : mint -> usd | NoSize
    positions,          \* TradingStrategy._positions : mint -> PositionState | NoPos
    storage,            \* the state_json row "position_" + mint : record | NoPos
    exec_kind,          \* which ExecutionClient the Strategy was built with
    jupiter,            \* JupiterExecutor's constructor arguments
    request_id,         \* RpcSender._request_id
    vpos,               \* PaperExecutor._positions : mint -> VirtualPosition | NoPos
    trade_count,        \* len(PaperExecutor._trade_history)
    inflight,           \* coroutines suspended at an await, by task id
    lastCall            \* the last public call made: its arguments and what it returned

vars == <<now, daily_pnl, daily_start_time, token_cooldowns, active_positions,
          position_sizes, positions, storage, exec_kind, jupiter, request_id, vpos,
          trade_count, inflight, lastCall>>

riskVars == <<daily_pnl, daily_start_time, token_cooldowns, active_positions,
              position_sizes>>

stratVars == <<positions, storage, exec_kind, jupiter, request_id, vpos, trade_count,
               inflight>>

----------------------------------------------------------------------------
(* Bounds of the model *)

\* the clock stops after MaxTime ticks
MaxTime == 3

\* after_fill is not called once |daily P&L| would pass MaxPnl
MaxPnl == 90

\* the executor is not called once it has made MaxTrades trades
MaxTrades == 5

\* at most MaxTasks coroutines are suspended at a time
MaxTasks == 2

\* RpcSender stops posting after MaxRequests requests
MaxRequests == 6

----------------------------------------------------------------------------
(* Configuration: the constructor arguments the model instantiates *)

PositionSizeUsd == 50

DailyMaxLossUsd == 60

CooldownSeconds == 2

MaxConcurrentPositions == 1

\* local midnight to local midnight, in ticks
DayLen == 3

\* time.time() counts from the epoch: the first reading is days past 0
StartTime == 2 * DayLen

Mints == {"m1", "m2"}

Prices == {1, 3, 4}

Liqs == {0, 200, 1000}

Vols == {50, 1000}

PnlFills == {-30, 0, 30}

\* the mints whose snapshots the driver feeds to the Strategy
FedMints == {"m1"}

\* on_signal reads every field; price and liquidity decide between approval and denial
SignalSnapshots == [mint : FedMints, price_usd : {0, 1, 3}, liq_usd : {200, 1000},
                    vol_5m_usd : {1000}]

\* the lifecycle checks read the mint and the price only
PriceSnapshots == [mint : FedMints, price_usd : Prices, liq_usd : {1000},
                   vol_5m_usd : {1000}]

\* size_usd reads the liquidity only
SizeSnapshots == [mint : FedMints, price_usd : {1}, liq_usd : Liqs, vol_5m_usd : {1000}]

\* allow_buy reads the price only to compare it with 0
RiskSnapshots == [mint : Mints, price_usd : {0, 1}, liq_usd : {200, 1000},
                  vol_5m_usd : Vols]

NoTime == -1

NoSize == -1

NoPos == [none |-> TRUE]

NoSnap == [mint |-> "none", price_usd |-> 0, liq_usd |-> 0, vol_5m_usd |-> 0]

Min(a, b) == IF a <= b THEN a ELSE b

Max(a, b) == IF a >= b THEN a ELSE b

NoResult == [raised |-> FALSE]

NoError == [type |-> "none", code |-> 0, message |-> ""]

\* the fee settings a JupiterExecutor is constructed with
FeeValues == {0, 5}

JupiterConfigs ==
    [signer : BOOLEAN, sender : BOOLEAN, enable_preflight : BOOLEAN,
     priority_fee_microlamports : FeeValues, compute_unit_limit : FeeValues,
     jito_tip_lamports : FeeValues]

\* what pipeline.py builds for live trading with the default settings
DefaultJupiter ==
    [signer |-> TRUE, sender |-> TRUE, enable_preflight |-> TRUE,
     priority_fee_microlamports |-> 0, compute_unit_limit |-> 5, jito_tip_lamports |-> 0]

\* what a public call was given and what it returned:
\*   ret, allowed, reasons   a gatekeeper method's return value
\*   outcome                 a Strategy method's: "none", "result" or "raised"
\*   execCalls               the executor methods the Strategy method called, in order
\*   riskCalls               the gatekeeper methods the Strategy method called, in order
\*   result                  the dict the executor returned to it last
\*   error                   the exception an RpcSender method raised
\*   requests                the requests an RpcSender method posted
\*   calls                   the collaborator calls a JupiterExecutor method made, in order
Call(op, snap, arg, ret, allowed, reasons) ==
    [op |-> op, snap |-> snap, arg |-> arg, ret |-> ret, allowed |-> allowed,
     reasons |-> reasons, outcome |-> "none", execCalls |-> <<>>, riskCalls |-> <<>>,
     result |-> NoResult, error |-> NoError, requests |-> 0,
     calls |-> <<>>]

StratCall(op, snap, outcome, execCalls, result) ==
    [op |-> op, snap |-> snap, arg |-> 0, ret |-> 0, allowed |-> TRUE,
     reasons |-> <<>>, outcome |-> outcome, execCalls |-> execCalls, riskCalls |-> <<>>,
     result |-> result, error |-> NoError, requests |-> 0,
     calls |-> <<>>]

----------------------------------------------------------------------------
(* RiskManagerImpl *)

\* manager.py: liq_usd < 1000
MinLiquidityUsd == 1000

\* manager.py: vol_5m_usd < 100
MinVolumeUsd == 100

\* manager.py: snap.liq_usd < size * 10
LiquidityRatio == 10

GetDayStart(t) == (t \div DayLen) * DayLen

\* the gatekeeper's state as one record, so that a call can be computed as a function
RiskState == [daily_pnl |-> daily_pnl, daily_start_time |-> daily_start_time,
              token_cooldowns |-> token_cooldowns]

\* a day-boundary reset that leaves the cooldowns in place
ResetDailyKeepsCooldowns(rs, t) ==
    IF GetDayStart(t) > rs.daily_start_time
    THEN [rs EXCEPT !.daily_pnl = 0, !.daily_start_time = GetDayStart(t)]
    ELSE rs

ResetDailyIfNeeded(rs, t) ==
    IF GetDayStart(t) > rs.daily_start_time
    THEN [daily_pnl |-> 0, daily_start_time |-> GetDayStart(t),
          token_cooldowns |-> [m \in Mints |-> NoTime]]
    ELSE rs

RemainingDailyBudget(rs) == DailyMaxLossUsd + rs.daily_pnl

\* a size_usd that forgets the liquidity cap
SizeUsdValueNoLiquidityCap(rs, snap) ==
    IF RemainingDailyBudget(rs) <= 0 THEN 0
    ELSE Min(PositionSizeUsd, RemainingDailyBudget(rs))

\* size_usd's return value, on the state left by the day-boundary check
SizeUsdValue(rs, snap) ==
    LET remaining == RemainingDailyBudget(rs)
        capped == Min(PositionSizeUsd, remaining)
        size == IF snap.liq_usd < capped * LiquidityRatio
                THEN Min(capped, snap.liq_usd \div LiquidityRatio)
                ELSE capped
    IN IF remaining <= 0 THEN 0 ELSE Max(0, size)

\* an allow_buy that never finds a stored cooldown
LastTradeTimeForgotten(rs, mint) == 0

LastTradeTime(rs, mint) ==
    IF rs.token_cooldowns[mint] = NoTime THEN 0 ELSE rs.token_cooldowns[mint]

\* a cooldown that still holds at the instant it expires
InCooldownInclusive(rs, mint, t) == t - LastTradeTime(rs, mint) <= CooldownSeconds

InCooldown(rs, mint, t) == t - LastTradeTime(rs, mint) < CooldownSeconds

Check(cond, reason) == [cond |-> cond, reason |-> reason]

\* allow_buy's checks in the order it makes them, on the state left by the
\* day-boundary check; each check that fires appends its reason and clears `allowed`
AllowBuyChecks(rs, active, snap, t) ==
    << Check(RemainingDailyBudget(rs) <= 0, "Daily loss limit exceeded"),
       Check(InCooldown(rs, snap.mint, t), "Token in cooldown"),
       Check(Cardinality(active) >= MaxConcurrentPositions,
             "Maximum concurrent positions reached"),
       Check(snap.mint \in active, "Already have position in this token"),
       Check(snap.liq_usd < MinLiquidityUsd, "Insufficient liquidity"),
       Check(snap.vol_5m_usd < MinVolumeUsd, "Insufficient trading volume"),
       Check(snap.price_usd <= 0, "Invalid price") >>

Fired(c) == c.cond

RECURSIVE ReasonsOf(_)
ReasonsOf(checks) ==
    IF checks = <<>> THEN <<>>
    ELSE (IF Fired(Head(checks)) THEN <<Head(checks).reason>> ELSE <<>>)
         \o ReasonsOf(Tail(checks))

AllowBuyReasons(rs, active, snap, t) == ReasonsOf(AllowBuyChecks(rs, active, snap, t))

AllowBuyAllowed(rs, active, snap, t) ==
    LET checks == AllowBuyChecks(rs, active, snap, t)
    IN \A i \in 1..Len(checks) : ~checks[i].cond

SetRisk(rs) ==
    /\ daily_pnl' = rs.daily_pnl
    /\ daily_start_time' = rs.daily_start_time
    /\ token_cooldowns' = rs.token_cooldowns

\* the daily_pnl property
DailyPnl ==
    LET rs == ResetDailyIfNeeded(RiskState, now)
    IN /\ SetRisk(rs)
       /\ lastCall' = Call("daily_pnl", NoSnap, 0, rs.daily_pnl, TRUE, <<>>)
       /\ UNCHANGED <<now, active_positions, position_sizes, stratVars>>

SizeUsd(snap) ==
    LET rs == ResetDailyIfNeeded(RiskState, now)
    IN /\ SetRisk(rs)
       /\ lastCall' = Call("size_usd", snap, 0, SizeUsdValue(rs, snap), TRUE, <<>>)
       /\ UNCHANGED <<now, active_positions, position_sizes, stratVars>>

AllowBuy(snap) ==
    LET rs == ResetDailyIfNeeded(RiskState, now)
    IN /\ SetRisk(rs)
       /\ lastCall' = Call("allow_buy", snap, 0, 0,
                           AllowBuyAllowed(rs, active_positions, snap, now),
                           AllowBuyReasons(rs, active_positions, snap, now))
       /\ UNCHANGED <<now, active_positions, position_sizes, stratVars>>

\* an after_fill that books losses only
AfterFillStateLossesOnly(rs, pnl_usd) ==
    [rs EXCEPT !.daily_pnl = rs.daily_pnl + Min(pnl_usd, 0)]

AfterFillState(rs, pnl_usd) == [rs EXCEPT !.daily_pnl = rs.daily_pnl + pnl_usd]

AfterFill(pnl_usd) ==
    LET rs == ResetDailyIfNeeded(RiskState, now)
    IN /\ rs.daily_pnl + pnl_usd >= -MaxPnl
       /\ rs.daily_pnl + pnl_usd <= MaxPnl
       /\ SetRisk(AfterFillState(rs, pnl_usd))
       /\ lastCall' = Call("after_fill", NoSnap, pnl_usd, 0, TRUE, <<>>)
       /\ UNCHANGED <<now, active_positions, position_sizes, stratVars>>

RecordPosition(mint, size_usd) ==
    /\ active_positions' = active_positions \cup {mint}
    /\ position_sizes' = [position_sizes EXCEPT ![mint] = size_usd]
    /\ lastCall' = Call("record_position", [NoSnap EXCEPT !.mint = mint], size_usd, 0,
                        TRUE, <<>>)
    /\ UNCHANGED <<now, daily_pnl, daily_start_time, token_cooldowns, stratVars>>

SetCooldown(mint) ==
    /\ token_cooldowns' = [token_cooldowns EXCEPT ![mint] = now]
    /\ lastCall' = Call("set_cooldown", [NoSnap EXCEPT !.mint = mint], 0, 0,
                        TRUE, <<>>)
    /\ UNCHANGED <<now, daily_pnl, daily_start_time, active_positions, position_sizes,
                   stratVars>>

ClosePosition(mint) ==
    /\ IF mint \in active_positions
       THEN /\ active_positions' = active_positions \ {mint}
            /\ position_sizes' = [position_sizes EXCEPT ![mint] = NoSize]
       ELSE UNCHANGED <<active_positions, position_sizes>>
    /\ lastCall' = Call("close_position", [NoSnap EXCEPT !.mint = mint], 0, 0,
                        TRUE, <<>>)
    /\ UNCHANGED <<now, daily_pnl, daily_start_time, token_cooldowns, stratVars>>

\* the wall clock advances between calls
Tick ==
    /\ now < StartTime + MaxTime
    /\ now' = now + 1
    /\ UNCHANGED <<riskVars, stratVars, lastCall>>

----------------------------------------------------------------------------
(* PaperExecutor *)

\* paper.py: slippage_bps / 10000.0, fee_bps / 10000.0
BpsDenominator == 10000

SlippageBps == 100

FeeBps == 50

\* a snapshot price in fine units
Fine(price) == price * BpsDenominator

\* _calculate_execution_price, in fine units
CalculateExecutionPrice(base_price, is_buy) ==
    IF is_buy THEN base_price * (BpsDenominator + SlippageBps)
    ELSE base_price * (BpsDenominator - SlippageBps)

\* usd / exec_price, in thousandths of a token
QtyFor(usd, exec_price) == (usd * BpsDenominator * 1000) \div exec_price

\* PaperExecutor._execute_trade for a buy: the result dict (money in 1/10000 USD)
PaperBuyResult(snap, usd_amount, t) ==
    LET exec_price == CalculateExecutionPrice(snap.price_usd, TRUE)
    IN [price_exec |-> exec_price,
        qty_base |-> QtyFor(usd_amount, exec_price),
        cost_usd |-> usd_amount * BpsDenominator,
        fee_usd |-> usd_amount * FeeBps,
        ts |-> t,
        token_mint |-> snap.mint,
        is_buy |-> TRUE,
        base_price |-> Fine(snap.price_usd),
        slippage_bps |-> SlippageBps]

\* usd / 0 in _execute_trade
PaperBuyRaises(snap) == CalculateExecutionPrice(snap.price_usd, TRUE) = 0

\* VirtualPosition.add_position and the new-position branch of buy
PaperLedgerAfterBuy(vp, result) ==
    LET cost == result.cost_usd + result.fee_usd
        qty == result.qty_base
    IN IF vp = NoPos
       THEN [avg_cost_usd |-> (cost * 1000) \div qty, qty_base |-> qty]
       ELSE IF qty <= 0 THEN vp
       ELSE [avg_cost_usd |-> ((vp.avg_cost_usd * vp.qty_base) + cost * 1000)
                              \div (vp.qty_base + qty),
             qty_base |-> vp.qty_base + qty]

\* sell raises ValueError when there is nothing to sell
PaperSellRaises(vp) == vp = NoPos \/ vp.qty_base <= 0

\* a sell that does not cap the quantity at what the position holds
PaperSellQtyUncapped(vp, pct) == (vp.qty_base * pct) \div (100 * 100)

\* the quantity sell takes for `pct`, given in hundredths of a unit: the contract's
\* unit is the percent (0-100), so the quantity is qty_base * (pct / 100.0)
PaperSellQty(vp, pct) == Min((vp.qty_base * pct) \div (100 * 100), vp.qty_base)

\* VirtualPosition.reduce_position: the quantity left
ReducePosition(vp, qty) ==
    IF qty <= 0 \/ qty > vp.qty_base THEN vp
    ELSE [vp EXCEPT !.qty_base = vp.qty_base - qty]

\* PaperExecutor.sell's result dict
PaperSellResult(vp, mint, pct, t) ==
    LET exec_price == CalculateExecutionPrice(vp.avg_cost_usd, FALSE) \div BpsDenominator
        qty == PaperSellQty(vp, pct)
        cost == (qty * exec_price) \div 1000
        basis == IF qty <= 0 \/ qty > vp.qty_base THEN 0
                 ELSE (vp.avg_cost_usd * qty) \div 1000
    IN [price_exec |-> exec_price,
        qty_base |-> qty,
        cost_usd |-> cost,
        fee_usd |-> (cost * FeeBps) \div BpsDenominator,
        ts |-> t,
        token_mint |-> mint,
        is_buy |-> FALSE,
        base_price |-> vp.avg_cost_usd,
        slippage_bps |-> SlippageBps,
        cost_basis |-> basis,
        realized_pnl |-> cost - basis]

\* the ledger entry after sell: reduced, and removed once nothing is left
PaperLedgerAfterSell(vp, pct) ==
    LET left == ReducePosition(vp, PaperSellQty(vp, pct))
    IN IF left.qty_base <= 0 THEN NoPos ELSE left

----------------------------------------------------------------------------
(* JupiterExecutor, as the Strategy sees it *)

\* JupiterExecutor._execute_trade's result dict; the values come from the network
LiveResult(operation, mint, t) ==
    [sig |-> "sig", route |-> "route", price_est |-> 0, ts |-> t,
     quote_id |-> "quote", operation |-> operation,
     input_mint |-> IF operation = "buy" THEN "USDC" ELSE mint,
     output_mint |-> IF operation = "buy" THEN mint ELSE "USDC",
     input_amount |-> 0, output_amount |-> 0, price_impact_pct |-> 0,
     slippage_bps |-> 0]

\* a live trade returns a result or raises (disabled, no route, node error, ...)
LiveOutcomes == {"ok", "raise"}

----------------------------------------------------------------------------
(* PositionState *)

\* strategy.py: trailing_stop_pct = 0.15, as a percentage
TrailingStopPct == 15

PctDenominator == 100

\* strategy.py: max_hold_time_hours, in ticks
MaxHoldTime == 2

\* strategy.py: the default ladder; a fraction is given in hundredths
TakeProfitLevels == << [multiplier |-> 2, fraction |-> 25],
                       [multiplier |-> 3, fraction |-> 25] >>

\* a sell logged without a "level" key: sell.get("level") is None
NoLevel == 0

\* datetime.isoformat() and datetime.fromisoformat()
IsoFormat(t) == <<"iso", t>>

\* a parser that keeps the date and drops the time of day
FromIsoFormatDateOnly(str) == (str[2] \div DayLen) * DayLen

FromIsoFormat(str) == str[2]

\* price * (1 - trailing_stop_pct), in stop units
StopPrice(price) == price * (PctDenominator - TrailingStopPct)

\* PositionState.__init__ as on_signal calls it
NewPosition(mint, trade_result, t) ==
    [token_mint |-> mint,
     entry_price_usd |-> trade_result.price_exec,
     quantity |-> trade_result.qty_base,
     entry_time |-> t,
     high_water_mark |-> trade_result.price_exec,
     trailing_stop_price |-> StopPrice(trade_result.price_exec),
     partial_sells |-> <<>>]

ToDict(position) == [position EXCEPT !.entry_time = IsoFormat(position.entry_time)]

FromDict(data) == [data EXCEPT !.entry_time = FromIsoFormat(data.entry_time)]

\* _save_position_state: the row written under "position_" + mint
SavePositionState(store, position) ==
    [store EXCEPT ![position.token_mint] = ToDict(position)]

\* reading a key of the executor's result dict raises KeyError when it is absent
HasKey(result, key) == key \in DOMAIN result

----------------------------------------------------------------------------
(* The ExecutionClient the Strategy holds *)

\* what a call of the executor can do: PaperExecutor is deterministic, a live
\* trade succeeds or raises
ExecOutcomes(kind) == IF kind = "paper" THEN {"ok"} ELSE LiveOutcomes

\* exec_client.buy: whether it raised, the dict it returned, the paper ledger entry
\* it left and the number of trades it appended to the trade history
ExecBuy(kind, vp, snap, usd_amount, t, outcome) ==
    IF kind = "paper"
    THEN IF PaperBuyRaises(snap)
         THEN [raised |-> TRUE, result |-> NoResult, vp |-> vp, traded |-> 0]
         ELSE LET r == PaperBuyResult(snap, usd_amount, t)
              IN [raised |-> FALSE, result |-> r, vp |-> PaperLedgerAfterBuy(vp, r),
                  traded |-> 1]
    ELSE IF outcome = "raise"
         THEN [raised |-> TRUE, result |-> NoResult, vp |-> vp, traded |-> 0]
         ELSE [raised |-> FALSE, result |-> LiveResult("buy", snap.mint, t), vp |-> vp,
               traded |-> 0]

\* exec_client.sell, `pct` in hundredths
ExecSell(kind, vp, mint, pct, t, outcome) ==
    IF kind = "paper"
    THEN IF PaperSellRaises(vp)
         THEN [raised |-> TRUE, result |-> NoResult, vp |-> vp, traded |-> 0]
         ELSE [raised |-> FALSE, result |-> PaperSellResult(vp, mint, pct, t),
               vp |-> PaperLedgerAfterSell(vp, pct), traded |-> 1]
    ELSE IF outcome = "raise"
         THEN [raised |-> TRUE, result |-> NoResult, vp |-> vp, traded |-> 0]
         ELSE [raised |-> FALSE, result |-> LiveResult("sell", mint, t), vp |-> vp,
               traded |-> 0]

ExecCall(method, mint, amount) == [method |-> method, mint |-> mint, amount |-> amount]

\* a ledger that counts a trade for every call, raised or not
SetLedgerCountsAttempts(mint, ex) ==
    /\ vpos' = [vpos EXCEPT ![mint] = ex.vp]
    /\ trade_count' = trade_count + 1

SetLedger(mint, ex) ==
    /\ vpos' = [vpos EXCEPT ![mint] = ex.vp]
    /\ trade_count' = trade_count + ex.traded

----------------------------------------------------------------------------
(* TradingStrategy *)

\* an on_signal without the open-position check
OnSignalSkipsNever(pos, mint) == FALSE

\* on_signal: "if token_mint in self._positions: return None"
OnSignalSkips(pos, mint) == pos[mint] # NoPos

\* on_signal after the buy returned `ex`: the position it records, or NoPos when the
\* buy raised or the result lacks a key PositionState is built from (KeyError, caught)
OnSignalPosition(mint, ex, t) ==
    IF ex.raised \/ ~HasKey(ex.result, "price_exec") \/ ~HasKey(ex.result, "qty_base")
    THEN NoPos
    ELSE NewPosition(mint, ex.result, t)

\* on_signal returns the trade result only if the closing log line could read cost_usd
OnSignalOutcome(ex, position) ==
    IF position # NoPos /\ HasKey(ex.result, "cost_usd") THEN "result" ELSE "none"

\* an on_signal that books the size of a failed buy as a loss
OnSignalCompleteChargesFailure(snap, size, ex, rs) ==
    LET mint == snap.mint
        position == OnSignalPosition(mint, ex, now)
    IN /\ IF position = NoPos
          THEN /\ SetRisk(AfterFillState(rs, -size))
               /\ UNCHANGED <<positions, storage>>
          ELSE /\ positions' = [positions EXCEPT ![mint] = position]
               /\ storage' = SavePositionState(storage, position)
               /\ SetRisk(AfterFillState(ResetDailyIfNeeded(rs, now), 0))
       /\ lastCall' = [StratCall("on_signal", snap, OnSignalOutcome(ex, position),
                                 <<ExecCall("buy", mint, size)>>, ex.result)
                           EXCEPT !.riskCalls = IF position = NoPos
                                                THEN <<"allow_buy", "size_usd">>
                                                ELSE <<"allow_buy", "size_usd",
                                                       "after_fill">>]

\* on_signal from the return of exec_client.buy (`ex`) to its own return; `rs` is the
\* gatekeeper's state as allow_buy and size_usd left it
OnSignalComplete(snap, size, ex, rs) ==
    LET mint == snap.mint
        position == OnSignalPosition(mint, ex, now)
    IN /\ IF position = NoPos
          THEN /\ SetRisk(rs)
               /\ UNCHANGED <<positions, storage>>
          ELSE /\ positions' = [positions EXCEPT ![mint] = position]
               /\ storage' = SavePositionState(storage, position)
               /\ SetRisk(AfterFillState(ResetDailyIfNeeded(rs, now), 0))
       /\ lastCall' = [StratCall("on_signal", snap, OnSignalOutcome(ex, position),
                                 <<ExecCall("buy", mint, size)>>, ex.result)
                           EXCEPT !.riskCalls = IF position = NoPos
                                                THEN <<"allow_buy", "size_usd">>
                                                ELSE <<"allow_buy", "size_usd",
                                                       "after_fill">>]

\* on_signal returns None before any buy: a position is open, the gatekeeper denied
\* the buy, or the size is zero
OnSignalDeclines(snap) ==
    LET mint == snap.mint
        rs == ResetDailyIfNeeded(RiskState, now)
        allowed == AllowBuyAllowed(rs, active_positions, snap, now)
        size == SizeUsdValue(rs, snap)
    IN \/ /\ OnSignalSkips(positions, mint)
          /\ lastCall' = StratCall("on_signal", snap, "none", <<>>, NoResult)
          /\ UNCHANGED <<now, riskVars, stratVars>>
       \/ /\ ~OnSignalSkips(positions, mint)
          /\ ~allowed \/ size <= 0
          /\ SetRisk(rs)
          /\ lastCall' = [StratCall("on_signal", snap, "none", <<>>, NoResult)
                              EXCEPT !.riskCalls = IF ~allowed
                                                   THEN <<"allow_buy">>
                                                   ELSE <<"allow_buy", "size_usd">>]
          /\ UNCHANGED <<now, active_positions, position_sizes, stratVars>>

\* an on_signal that buys whatever allow_buy said
OnSignalBuysUnchecked(snap) ==
    /\ ~OnSignalSkips(positions, snap.mint)
    /\ SizeUsdValue(ResetDailyIfNeeded(RiskState, now), snap) > 0

\* on_signal goes on to call exec_client.buy
OnSignalBuys(snap) ==
    LET rs == ResetDailyIfNeeded(RiskState, now)
    IN /\ ~OnSignalSkips(positions, snap.mint)
       /\ AllowBuyAllowed(rs, active_positions, snap, now)
       /\ SizeUsdValue(rs, snap) > 0

OnSignal(snap) ==
    LET mint == snap.mint
        rs == ResetDailyIfNeeded(RiskState, now)
        size == SizeUsdValue(rs, snap)
    IN \/ OnSignalDeclines(snap)
       \/ /\ OnSignalBuys(snap)
          /\ trade_count < MaxTrades
          /\ \E outcome \in ExecOutcomes(exec_kind) :
                LET ex == ExecBuy(exec_kind, vpos[mint], snap, size, now, outcome)
                IN /\ SetLedger(mint, ex)
                   /\ OnSignalComplete(snap, size, ex, rs)
          /\ UNCHANGED <<now, active_positions, position_sizes, exec_kind, jupiter, request_id, inflight>>

\* "if current_price > position.high_water_mark: position.high_water_mark = ..."
RaiseHighWaterMark(position, price) ==
    IF price > position.high_water_mark
    THEN [position EXCEPT !.high_water_mark = price]
    ELSE position

\* a take_profits that does not look at the log
AlreadySoldNever(position, multiplier) == FALSE

\* any(sell.get("level") == multiplier for sell in position.partial_sells)
AlreadySold(position, multiplier) ==
    \E i \in 1..Len(position.partial_sells) :
        position.partial_sells[i].level = multiplier

\* price / entry_price >= multiplier and not already sold at this level
LevelDue(position, price, level) ==
    /\ price >= level.multiplier * position.entry_price_usd
    /\ ~AlreadySold(position, level.multiplier)

\* a take_profits that picks the highest level that is due
FirstDueLevelFromTop(position, price) ==
    LET due == {i \in 1..Len(TakeProfitLevels) :
                    LevelDue(position, price, TakeProfitLevels[i])}
    IN IF due = {} THEN 0 ELSE CHOOSE i \in due : \A j \in due : i >= j

\* the first level of the ladder, in configured order, that is due (0: none)
FirstDueLevel(position, price) ==
    LET due == {i \in 1..Len(TakeProfitLevels) :
                    LevelDue(position, price, TakeProfitLevels[i])}
    IN IF due = {} THEN 0 ELSE CHOOSE i \in due : \A j \in due : i <= j

RECURSIVE SoldQuantity(_)
SoldQuantity(log) == IF log = <<>> THEN 0 ELSE Head(log).quantity + SoldQuantity(Tail(log))

\* a partial sell sized from the quantity the position was opened with
SellQuantityOfEntry(position, fraction) ==
    ((position.quantity + SoldQuantity(position.partial_sells)) * fraction)
        \div PctDenominator

\* position.quantity * fraction, the fraction in hundredths
SellQuantity(position, fraction) == (position.quantity * fraction) \div PctDenominator

SellEntry(t, quantity, price, level, reason) ==
    [timestamp |-> IsoFormat(t), quantity |-> quantity, price |-> price,
     level |-> level, reason |-> reason]

\* a partial sell that logs the quantity left instead of the quantity sold
PartialSellPositionLogsRemaining(position, fraction, level, ex, t) ==
    LET sell_quantity == SellQuantity(position, fraction)
        reduced == [position EXCEPT !.quantity = position.quantity - sell_quantity]
    IN IF ex.raised THEN position
       ELSE IF ~HasKey(ex.result, "price_exec") THEN reduced
       ELSE [reduced EXCEPT !.partial_sells =
                Append(position.partial_sells,
                       SellEntry(t, reduced.quantity, ex.result.price_exec, level,
                                 "take_profit"))]

\* _execute_partial_sell after the sell returned `ex`: the PositionState it leaves
PartialSellPosition(position, fraction, level, ex, t) ==
    LET sell_quantity == SellQuantity(position, fraction)
        reduced == [position EXCEPT !.quantity = position.quantity - sell_quantity]
    IN IF ex.raised THEN position
       ELSE IF ~HasKey(ex.result, "price_exec") THEN reduced
       ELSE [reduced EXCEPT !.partial_sells =
                Append(position.partial_sells,
                       SellEntry(t, sell_quantity, ex.result.price_exec, level,
                                 "take_profit"))]

\* a handler that awaited a sell: it raised (the sell, or a KeyError on its result)
\* or returned the sell result
SellOutcome(ex) ==
    IF ex.raised \/ ~HasKey(ex.result, "price_exec") THEN "raised" ELSE "result"

\* "if position.quantity <= 0: del self._positions[...]"
PartialSellCloses(position) == position.quantity <= 0

\* _execute_partial_sell, from the call of exec_client.sell to its return
ExecutePartialSell(op, snap, position, level) ==
    LET mint == snap.mint
        fraction == level.fraction
    IN /\ trade_count < MaxTrades
       /\ \E outcome \in ExecOutcomes(exec_kind) :
             LET ex == ExecSell(exec_kind, vpos[mint], mint, fraction, now, outcome)
                 after == PartialSellPosition(position, fraction, level.multiplier, ex, now)
                 done == SellOutcome(ex) = "result"
             IN /\ SetLedger(mint, ex)
                /\ positions' = [positions EXCEPT ![mint] =
                                    IF done /\ PartialSellCloses(after) THEN NoPos
                                    ELSE after]
                /\ storage' = IF done THEN SavePositionState(storage, after) ELSE storage
                /\ lastCall' = StratCall(op, snap, SellOutcome(ex),
                                         <<ExecCall("sell", mint, fraction)>>, ex.result)

\* _execute_full_sell after the sell returned `ex`: the PositionState it leaves
FullSellPosition(position, reason, ex, t) ==
    IF ex.raised \/ ~HasKey(ex.result, "price_exec") THEN position
    ELSE [position EXCEPT !.partial_sells =
             Append(position.partial_sells,
                    SellEntry(t, position.quantity, ex.result.price_exec, NoLevel,
                              reason))]

\* _execute_full_sell sells 100% as "1.0"
FullSellPct == 100

\* _execute_full_sell, from the call of exec_client.sell to its return
ExecuteFullSell(op, snap, position, reason) ==
    LET mint == snap.mint
    IN /\ trade_count < MaxTrades
       /\ \E outcome \in ExecOutcomes(exec_kind) :
             LET ex == ExecSell(exec_kind, vpos[mint], mint, FullSellPct, now, outcome)
                 after == FullSellPosition(position, reason, ex, now)
                 done == SellOutcome(ex) = "result"
             IN /\ SetLedger(mint, ex)
                /\ positions' = [positions EXCEPT ![mint] = IF done THEN NoPos ELSE after]
                /\ storage' = IF done THEN SavePositionState(storage, after) ELSE storage
                /\ lastCall' = StratCall(op, snap, SellOutcome(ex),
                                         <<ExecCall("sell", mint, FullSellPct)>>, ex.result)

\* a lifecycle check for a mint without a position returns None
NoPositionCall(op, snap) ==
    /\ positions[snap.mint] = NoPos
    /\ lastCall' = StratCall(op, snap, "none", <<>>, NoResult)
    /\ UNCHANGED <<now, riskVars, stratVars>>

TakeProfits(snap) ==
    LET mint == snap.mint
        price == Fine(snap.price_usd)
        position == RaiseHighWaterMark(positions[mint], price)
        due == FirstDueLevel(position, price)
    IN \/ NoPositionCall("take_profits", snap)
       \/ /\ positions[mint] # NoPos
          /\ due = 0
          /\ positions' = [positions EXCEPT ![mint] = position]
          /\ lastCall' = StratCall("take_profits", snap, "none", <<>>, NoResult)
          /\ UNCHANGED <<now, riskVars, storage, exec_kind, jupiter, request_id, vpos, trade_count, inflight>>
       \/ /\ positions[mint] # NoPos
          /\ due # 0
          /\ ExecutePartialSell("take_profits", snap, position, TakeProfitLevels[due])
          /\ UNCHANGED <<now, riskVars, exec_kind, jupiter, request_id, inflight>>

\* a trailing stop that follows the price down as well as up
RaiseTrailingStopFollowsPrice(position, price) ==
    [position |-> [position EXCEPT
                      !.high_water_mark = Max(price, position.high_water_mark),
                      !.trailing_stop_price = StopPrice(price)],
     saved |-> TRUE]

\* trailing_stop's update of the high-water mark and of the stop; `saved` tells
\* whether it persisted the position
RaiseTrailingStop(position, price) ==
    IF price > position.high_water_mark
    THEN IF StopPrice(price) > position.trailing_stop_price
         THEN [position |-> [position EXCEPT !.high_water_mark = price,
                                             !.trailing_stop_price = StopPrice(price)],
               saved |-> TRUE]
         ELSE [position |-> [position EXCEPT !.high_water_mark = price],
               saved |-> FALSE]
    ELSE [position |-> position, saved |-> FALSE]

\* "if current_price <= position.trailing_stop_price"
StopTriggered(position, price) == price * PctDenominator <= position.trailing_stop_price

TrailingStop(snap) ==
    LET mint == snap.mint
        price == Fine(snap.price_usd)
        raised == RaiseTrailingStop(positions[mint], price)
        position == raised.position
        store == IF raised.saved THEN SavePositionState(storage, position) ELSE storage
    IN \/ NoPositionCall("trailing_stop", snap)
       \/ /\ positions[mint] # NoPos
          /\ ~StopTriggered(position, price)
          /\ positions' = [positions EXCEPT ![mint] = position]
          /\ storage' = store
          /\ lastCall' = StratCall("trailing_stop", snap, "none", <<>>, NoResult)
          /\ UNCHANGED <<now, riskVars, exec_kind, jupiter, request_id, vpos, trade_count, inflight>>
       \/ /\ positions[mint] # NoPos
          /\ StopTriggered(position, price)
          /\ ExecuteFullSell("trailing_stop", snap, position, "trailing_stop")
          /\ UNCHANGED <<now, riskVars, exec_kind, jupiter, request_id, inflight>>

\* "if hold_time >= max_hold_time"
HoldTimeReached(position, t) == t - position.entry_time >= MaxHoldTime

TimeStop(snap) ==
    LET mint == snap.mint
        position == positions[mint]
    IN \/ NoPositionCall("time_stop", snap)
       \/ /\ position # NoPos
          /\ ~HoldTimeReached(position, now)
          /\ lastCall' = StratCall("time_stop", snap, "none", <<>>, NoResult)
          /\ UNCHANGED <<now, riskVars, stratVars>>
       \/ /\ position # NoPos
          /\ HoldTimeReached(position, now)
          /\ ExecuteFullSell("time_stop", snap, position, "time_stop")
          /\ UNCHANGED <<now, riskVars, exec_kind, jupiter, request_id, inflight>>

----------------------------------------------------------------------------
(* The state after construction *)

InitBase ==
    /\ now = StartTime
    /\ daily_pnl = 0
    /\ daily_start_time = GetDayStart(StartTime)
    /\ token_cooldowns = [m \in Mints |-> NoTime]
    /\ active_positions = {}
    /\ position_sizes = [m \in Mints |-> NoSize]
    /\ positions = [m \in Mints |-> NoPos]
    /\ storage = [m \in Mints |-> NoPos]
    /\ vpos = [m \in Mints |-> NoPos]
    /\ trade_count = 0
    /\ inflight = <<>>
    /\ request_id = 0
    /\ lastCall = Call("init", NoSnap, 0, 0, TRUE, <<>>)

Init == InitBase /\ exec_kind \in {"paper", "live"} /\ jupiter = DefaultJupiter

InitRisk == InitBase /\ exec_kind = "paper" /\ jupiter = DefaultJupiter

\* The gatekeeper on its own, driven through its public methods
RiskNext ==
    \/ Tick
    \/ DailyPnl
    \/ \E snap \in SizeSnapshots : SizeUsd(snap)
    \/ \E snap \in RiskSnapshots : AllowBuy(snap)
    \/ \E pnl \in PnlFills : AfterFill(pnl)
    \/ \E m \in Mints : RecordPosition(m, PositionSizeUsd)
    \/ \E m \in Mints : SetCooldown(m)
    \/ \E m \in Mints : ClosePosition(m)

SpecRisk == InitRisk /\ [][RiskNext]_vars

\* The Strategy, called sequentially: one snapshot's handler runs to its return
\* before the next call starts
Next ==
    \/ Tick
    \/ \E snap \in SignalSnapshots : OnSignal(snap)
    \/ \E snap \in PriceSnapshots : TakeProfits(snap)
    \/ \E snap \in PriceSnapshots : TrailingStop(snap)
    \/ \E snap \in PriceSnapshots : TimeStop(snap)

Spec == Init /\ [][Next]_vars

----------------------------------------------------------------------------
(* Overlapping calls.  A coroutine gives up control only at an await that   *)
(* really suspends: JupiterExecutor's buy awaits the network, PaperExecutor's *)
(* buy has no await in it and returns without suspending.                    *)

Suspends(kind) == kind = "live"

Task(op, snap, size, rs) == [op |-> op, snap |-> snap, size |-> size, rs |-> rs]

RemoveAt(seq, i) == SubSeq(seq, 1, i - 1) \o SubSeq(seq, i + 1, Len(seq))

\* on_signal up to "await self.exec_client.buy(...)"
AsyncOnSignal(snap) ==
    LET mint == snap.mint
        rs == ResetDailyIfNeeded(RiskState, now)
        size == SizeUsdValue(rs, snap)
    IN \/ /\ ~Suspends(exec_kind)
          /\ OnSignal(snap)
       \/ /\ Suspends(exec_kind)
          /\ OnSignalDeclines(snap)
       \/ /\ Suspends(exec_kind)
          /\ OnSignalBuys(snap)
          /\ Len(inflight) < MaxTasks
          /\ SetRisk(rs)
          /\ inflight' = Append(inflight, Task("on_signal", snap, size, rs))
          /\ lastCall' = [StratCall("on_signal", snap, "pending",
                                    <<ExecCall("buy", mint, size)>>, NoResult)
                              EXCEPT !.riskCalls = <<"allow_buy", "size_usd">>]
          /\ UNCHANGED <<now, active_positions, position_sizes, positions, storage,
                         exec_kind, jupiter, request_id, vpos, trade_count>>

\* the buy of a suspended on_signal returns or raises, and on_signal runs to its return
AsyncBuyReturns(i) ==
    LET task == inflight[i]
        mint == task.snap.mint
    IN /\ task.op = "on_signal"
       /\ \E outcome \in ExecOutcomes(exec_kind) :
             LET ex == ExecBuy(exec_kind, vpos[mint], task.snap, task.size, now, outcome)
             IN /\ SetLedger(mint, ex)
                /\ OnSignalComplete(task.snap, task.size, ex, RiskState)
       /\ inflight' = RemoveAt(inflight, i)
       /\ UNCHANGED <<now, active_positions, position_sizes, exec_kind, jupiter, request_id>>

AsyncNext ==
    \/ Tick
    \/ \E snap \in SignalSnapshots : AsyncOnSignal(snap)
    \/ \E i \in DOMAIN inflight : AsyncBuyReturns(i)
    \/ \E snap \in PriceSnapshots : TakeProfits(snap)
    \/ \E snap \in PriceSnapshots : TrailingStop(snap)
    \/ \E snap \in PriceSnapshots : TimeStop(snap)

SpecAsync == Init /\ [][AsyncNext]_vars

----------------------------------------------------------------------------
(* RpcSender.  The node and the transport are the environment: every post   *)
(* is answered by a result or by an error.  The caller awaits each public   *)
(* method before it calls the next, so one call is suspended at a time.     *)

\* SolanaRpcError(code, message)
SolanaRpcError(code, message) ==
    [type |-> "SolanaRpcError", code |-> code, message |-> message]

\* httpx exceptions and the builtin TimeoutError carry no code
PlainError(type) == [type |-> type, code |-> 0, message |-> ""]

\* retryable_codes
RetryableCodes == {-32603, -32005, -32004, 429}

\* a wrapper that retries on every exception
IsRetryableErrorAlways(exception) == TRUE

\* _is_retryable_error
IsRetryableError(exception) ==
    \/ exception.type = "TimeoutException"
    \/ exception.type = "ConnectError"
    \/ exception.type = "NetworkError"
    \/ /\ exception.type = "SolanaRpcError"
       /\ exception.code \in RetryableCodes

\* stop=stop_after_attempt(3)
StopAfterAttempt == 3

\* a wrapper that gives up after the first attempt
ShouldStopAtOnce(attempt) == TRUE

ShouldStop(attempt) == attempt >= StopAfterAttempt

\* confirm_signature's timeout and poll_interval arguments, in ticks
ConfirmTimeout == 2

PollInterval == 1

\* the codes a node answers with: the retryable ones, invalid params (-32602),
\* and an error object without a code, which error.get("code", -1) reads as -1
NodeCodes == RetryableCodes \cup {-32602, -1}

NodeErrors == {SolanaRpcError(code, "node") : code \in NodeCodes}

\* what client.post and raise_for_status raise; HTTPStatusError is an
\* httpx.HTTPError that is none of the three retryable classes
TransportErrors ==
    {PlainError(type) : type \in {"TimeoutException", "ConnectError", "NetworkError",
                                  "HTTPStatusError"}}

Levels == {"processed", "confirmed", "finalized"}

NoTxErr == "null"

\* data["result"] of a response
RpcResult(value, err, level) == [value |-> value, err |-> err, confirmationStatus |-> level]

\* result["value"][0] is None: the transaction is not found yet
NoStatus == RpcResult("null", NoTxErr, "none")

Statuses ==
    {NoStatus} \cup {RpcResult("status", err, level) :
                        err \in {NoTxErr, "InstructionError"}, level \in Levels}

SimpleOps == {"simulate", "send", "get_latest_blockhash"}

NodeResults(op) ==
    CASE op = "simulate" ->
             {RpcResult("simulation", err, "none") : err \in {NoTxErr, "InstructionError"}}
      [] op = "send" -> {RpcResult("signature", NoTxErr, "none")}
      [] op = "get_latest_blockhash" -> {RpcResult("blockhash", NoTxErr, "none")}
      [] op = "confirm_signature" -> Statuses

\* how one post of a method can be answered
Responses(op) ==
    {[result |-> result, error |-> NoError] : result \in NodeResults(op)}
        \cup {[result |-> NoResult, error |-> error] :
                 error \in NodeErrors \cup TransportErrors}

\* what the retry wrapper of _make_rpc_request does once attempt number
\* `attempt` has been answered: return the result, post again, or re-raise
AttemptOutcome(attempt, resp) ==
    IF resp.error = NoError THEN "return"
    ELSE IF IsRetryableError(resp.error) /\ ~ShouldStop(attempt) THEN "retry"
    ELSE "raise"

\* a status is at the requested commitment
CommitmentReached(status, commitment) ==
    \/ status.confirmationStatus = commitment
    \/ commitment = "processed"

\* a confirm_signature that looks at the confirmation level before err
ConfirmDecisionLevelFirst(status, commitment) ==
    IF status = NoStatus THEN "sleep"
    ELSE IF CommitmentReached(status, commitment) THEN "return"
    ELSE IF status.err # NoTxErr THEN "raise"
    ELSE "sleep"

\* confirm_signature's branch on the status a poll returned
ConfirmDecision(status, commitment) ==
    IF status = NoStatus THEN "sleep"
    ELSE IF status.err # NoTxErr THEN "raise"
    ELSE IF CommitmentReached(status, commitment) THEN "return"
    ELSE "sleep"

\* a simulate that raises when the report holds an error
SimulateDecisionRaisesOnErr(report) ==
    IF report.err # NoTxErr THEN "raise" ELSE "return"

\* simulate's branch on the report: both branches log and reach "return result"
SimulateDecision(report) == "return"

\* a suspended public method: at "post" it awaits the answer to its attempt
\* number `attempt`, at "sleep" it awaits asyncio.sleep(poll_interval)
RpcTask(op, commitment, attempt, requests, end_time, wake, at) ==
    [op |-> op, arg |-> commitment, attempt |-> attempt, requests |-> requests,
     end_time |-> end_time, wake |-> wake, at |-> at]

RpcCallRecord(task, outcome, result, error) ==
    [Call(task.op, NoSnap, task.arg, 0, TRUE, <<>>)
        EXCEPT !.outcome = outcome, !.result = result, !.error = error,
               !.requests = task.requests]

\* the method returns or raises to its caller
RpcCompletes(i, outcome, result, error) ==
    /\ inflight' = RemoveAt(inflight, i)
    /\ lastCall' = RpcCallRecord(inflight[i], outcome, result, error)
    /\ UNCHANGED request_id

\* _get_request_id and client.post for the next attempt or the next poll
RpcPosts(i, attempt) ==
    /\ request_id < MaxRequests
    /\ request_id' = request_id + 1
    /\ inflight' = [inflight EXCEPT ![i].attempt = attempt, ![i].requests = @ + 1,
                                    ![i].at = "post"]
    /\ UNCHANGED lastCall

\* confirm_signature reaches "await asyncio.sleep(poll_interval)"
ConfirmSleeps(i) ==
    /\ inflight' = [inflight EXCEPT ![i].at = "sleep", ![i].wake = now + PollInterval]
    /\ UNCHANGED <<request_id, lastCall>>

\* simulate, send, get_latest_blockhash and confirm_signature up to the first post
RpcCall(op, commitment) ==
    LET end_time == IF op = "confirm_signature" THEN now + ConfirmTimeout ELSE 0
        task == RpcTask(op, commitment, 1, 1, end_time, 0, "post")
    IN /\ inflight = <<>>
       /\ request_id < MaxRequests
       /\ request_id' = request_id + 1
       /\ inflight' = <<task>>
       /\ lastCall' = RpcCallRecord(task, "pending", NoResult, NoError)
       /\ UNCHANGED <<now, riskVars, positions, storage, exec_kind, jupiter, vpos, trade_count>>

\* the post of a suspended method is answered, and the method runs to its
\* next await or to its return
RpcResponse(i, resp) ==
    LET task == inflight[i]
        outcome == AttemptOutcome(task.attempt, resp)
    IN /\ task.at = "post"
       /\ CASE outcome = "retry" -> RpcPosts(i, task.attempt + 1)
            [] outcome = "raise" ->
                  IF task.op = "confirm_signature" /\ resp.error.type # "SolanaRpcError"
                  THEN ConfirmSleeps(i)
                  ELSE RpcCompletes(i, "raised", NoResult, resp.error)
            [] outcome = "return" /\ task.op = "simulate" ->
                  IF SimulateDecision(resp.result) = "return"
                  THEN RpcCompletes(i, "result", resp.result, NoError)
                  ELSE RpcCompletes(i, "raised", NoResult,
                                    SolanaRpcError(-1, "Simulation failed"))
            [] outcome = "return" /\ task.op \in {"send", "get_latest_blockhash"} ->
                  RpcCompletes(i, "result", resp.result, NoError)
            [] outcome = "return" /\ task.op = "confirm_signature" ->
                  LET decision == ConfirmDecision(resp.result, task.arg)
                  IN CASE decision = "raise" ->
                              RpcCompletes(i, "raised", NoResult,
                                           SolanaRpcError(-1, "Transaction failed"))
                       [] decision = "return" ->
                              RpcCompletes(i, "result", resp.result, NoError)
                       [] decision = "sleep" -> ConfirmSleeps(i)
       /\ UNCHANGED <<now, riskVars, positions, storage, exec_kind, jupiter, vpos, trade_count>>

\* the sleep of confirm_signature ends: the loop polls again before the
\* deadline and raises TimeoutError at or after it
ConfirmWakes(i) ==
    LET task == inflight[i]
    IN /\ task.at = "sleep"
       /\ now >= task.wake
       /\ IF now < task.end_time
          THEN RpcPosts(i, 1)
          ELSE RpcCompletes(i, "raised", NoResult, PlainError("TimeoutError"))
       /\ UNCHANGED <<now, riskVars, positions, storage, exec_kind, jupiter, vpos, trade_count>>

InitRpc == InitBase /\ exec_kind = "live" /\ jupiter = DefaultJupiter

RpcNext ==
    \/ Tick
    \/ \E op \in SimpleOps : RpcCall(op, "none")
    \/ \E commitment \in Levels : RpcCall("confirm_signature", commitment)
    \/ \E i \in DOMAIN inflight : \E resp \in Responses(inflight[i].op) : RpcResponse(i, resp)
    \/ \E i \in DOMAIN inflight : ConfirmWakes(i)

SpecRpc == InitRpc /\ [][RpcNext]_vars

----------------------------------------------------------------------------
(* JupiterExecutor.  The quote API, the signer and the sender are the       *)
(* environment: each awaited call is answered by a result or by an error.   *)
(* The caller awaits each public method before it calls the next.           *)

\* an override the caller did not give: None
NoOverride == -1

\* the per-call overrides of buy and sell
Overrides ==
    [priority_fee_micro : {NoOverride, 0, 7}, compute_unit_limit : {NoOverride, 0, 7},
     jito_tip_lamports : {NoOverride, 0, 7}]

\* an executor that takes a signer alone for enough
IsLiveTradingEnabledSignerOnly(cfg) == cfg.signer

\* _is_live_trading_enabled
IsLiveTradingEnabled(cfg) == cfg.signer /\ cfg.sender

\* a request body that carries each optional field whatever its value
SwapRequestWithZeros(cfg, ov) ==
    [computeUnitPriceMicroLamports |->
         IF ov.priority_fee_micro # NoOverride THEN ov.priority_fee_micro
         ELSE cfg.priority_fee_microlamports,
     computeUnitLimit |->
         IF ov.compute_unit_limit # NoOverride THEN ov.compute_unit_limit
         ELSE cfg.compute_unit_limit,
     prioritizationFeeLamports |->
         IF ov.jito_tip_lamports # NoOverride THEN ov.jito_tip_lamports
         ELSE cfg.jito_tip_lamports]

\* the optional fields of the swap_request _build_swap_transaction posts
SwapRequest(cfg, ov) ==
    LET priority_fee == IF ov.priority_fee_micro # NoOverride THEN ov.priority_fee_micro
                        ELSE cfg.priority_fee_microlamports
        compute_units == IF ov.compute_unit_limit # NoOverride THEN ov.compute_unit_limit
                         ELSE cfg.compute_unit_limit
        jito_tip == IF ov.jito_tip_lamports # NoOverride THEN ov.jito_tip_lamports
                    ELSE cfg.jito_tip_lamports
        value == [computeUnitPriceMicroLamports |-> priority_fee,
                  computeUnitLimit |-> compute_units,
                  prioritizationFeeLamports |-> jito_tip]
    IN [k \in {f \in DOMAIN value : value[f] > 0} |-> value[k]]

\* what a public method of the executor was given and how it ended
JupCallRecord(task, outcome, result, error) ==
    [Call(task.op, NoSnap, task.arg, 0, TRUE, <<>>)
        EXCEPT !.outcome = outcome, !.result = result, !.error = error,
               !.calls = task.calls]

\* the method returns or raises to its caller
JupCompletes(i, outcome, result, error) ==
    /\ inflight' = RemoveAt(inflight, i)
    /\ lastCall' = JupCallRecord(inflight[i], outcome, result, error)

\* the method makes the calls `made` and suspends at the last of them
JupAwaits(i, at, made) ==
    /\ inflight' = [inflight EXCEPT ![i].at = at, ![i].calls = @ \o made]
    /\ UNCHANGED lastCall

\* buy, sell and simulate up to their first await
JupCall(op, ov) ==
    LET task == [op |-> op, arg |-> ov, at |-> "quote", calls |-> <<>>]
    IN /\ inflight = <<>>
       /\ IF op \in {"buy", "sell"} /\ ~IsLiveTradingEnabled(jupiter)
          THEN /\ lastCall' = JupCallRecord(task, "raised", NoResult,
                                            PlainError("NotImplementedError"))
               /\ UNCHANGED inflight
          ELSE /\ inflight' = <<[task EXCEPT !.calls = <<<<"quote", <<>>>>>>]>>
               /\ lastCall' = JupCallRecord(task, "pending", NoResult, NoError)
       /\ UNCHANGED <<now, riskVars, positions, storage, exec_kind, jupiter,
                      request_id, vpos, trade_count>>

\* _get_quote returns or raises
JupQuoteReturns(i, answer) ==
    LET task == inflight[i]
    IN /\ task.at = "quote"
       /\ CASE answer = "error" ->
                  JupCompletes(i, "raised", NoResult, PlainError("HTTPStatusError"))
            [] answer = "no_routes" ->
                  JupCompletes(i, "raised", NoResult,
                               [type |-> "ValueError", code |-> 0,
                                message |-> "No routes available for quote"])
            [] answer = "routes" /\ task.op = "simulate" ->
                  JupCompletes(i, "result", [output_amount |-> 1], NoError)
            [] answer = "routes" /\ task.op # "simulate" ->
                  JupAwaits(i, "build",
                            <<<<"pubkey_base58", <<>>>>,
                              <<"build", SwapRequest(jupiter, task.arg)>>>>)
       /\ UNCHANGED <<now, riskVars, positions, storage, exec_kind, jupiter,
                      request_id, vpos, trade_count>>

\* a routine that signs and sends whatever the build response holds
JupBuildReturnsUnchecked(i, answer) ==
    /\ inflight[i].at = "build"
    /\ IF answer = "error"
       THEN JupCompletes(i, "raised", NoResult, PlainError("HTTPStatusError"))
       ELSE IF jupiter.enable_preflight
       THEN JupAwaits(i, "simulate", <<<<"sign", <<>>>>, <<"simulate", <<>>>>>>)
       ELSE JupAwaits(i, "send", <<<<"sign", <<>>>>, <<"send", <<>>>>>>)
    /\ UNCHANGED <<now, riskVars, positions, storage, exec_kind, jupiter,
                   request_id, vpos, trade_count>>

\* _build_swap_transaction returns or raises; on a transaction the routine
\* signs it and goes on to the pre-send simulation or to the send
JupBuildReturns(i, answer) ==
    LET task == inflight[i]
    IN /\ task.at = "build"
       /\ CASE answer = "error" ->
                  JupCompletes(i, "raised", NoResult, PlainError("HTTPStatusError"))
            [] answer = "no_tx" ->
                  JupCompletes(i, "raised", NoResult,
                               [type |-> "ValueError", code |-> 0,
                                message |-> "No swap transaction in response"])
            [] answer = "tx" ->
                  IF jupiter.enable_preflight
                  THEN JupAwaits(i, "simulate", <<<<"sign", <<>>>>, <<"simulate", <<>>>>>>)
                  ELSE JupAwaits(i, "send", <<<<"sign", <<>>>>, <<"send", <<>>>>>>)
       /\ UNCHANGED <<now, riskVars, positions, storage, exec_kind, jupiter,
                      request_id, vpos, trade_count>>

\* a routine that lets an exception of sender.simulate escape
JupSimulateAborts(i, answer) ==
    /\ inflight[i].at = "simulate"
    /\ IF answer = "raises"
       THEN JupCompletes(i, "raised", NoResult, SolanaRpcError(-32602, "node"))
       ELSE JupAwaits(i, "send", <<<<"send", <<>>>>>>)
    /\ UNCHANGED <<now, riskVars, positions, storage, exec_kind, jupiter,
                   request_id, vpos, trade_count>>

\* sender.simulate returns a report or raises: the routine goes on to send
JupSimulateReturns(i, answer) ==
    /\ inflight[i].at = "simulate"
    /\ answer \in {"ok", "err_report", "raises"}
    /\ JupAwaits(i, "send", <<<<"send", <<>>>>>>)
    /\ UNCHANGED <<now, riskVars, positions, storage, exec_kind, jupiter,
                   request_id, vpos, trade_count>>

\* sender.send returns the signature or raises
JupSendReturns(i, answer) ==
    LET task == inflight[i]
    IN /\ task.at = "send"
       /\ CASE answer = "signature" ->
                  JupCompletes(i, "result", [sig |-> "signature", operation |-> task.op],
                               NoError)
            [] answer = "raises" ->
                  JupCompletes(i, "raised", NoResult, SolanaRpcError(-32602, "node"))
       /\ UNCHANGED <<now, riskVars, positions, storage, exec_kind, jupiter,
                      request_id, vpos, trade_count>>

InitJup == InitBase /\ exec_kind = "live" /\ jupiter \in JupiterConfigs

JupNext ==
    \/ \E ov \in Overrides : JupCall("simulate", ov)
    \/ \E op \in {"buy", "sell"} : \E ov \in Overrides : JupCall(op, ov)
    \/ \E i \in DOMAIN inflight : \E answer \in {"routes", "no_routes", "error"} :
          JupQuoteReturns(i, answer)
    \/ \E i \in DOMAIN inflight : \E answer \in {"tx", "no_tx", "error"} :
          JupBuildReturns(i, answer)
    \/ \E i \in DOMAIN inflight : \E answer \in {"ok", "err_report", "raises"} :
          JupSimulateReturns(i, answer)
    \/ \E i \in DOMAIN inflight : \E answer \in {"signature", "raises"} :
          JupSendReturns(i, answer)

SpecJup == InitJup /\ [][JupNext]_vars

----------------------------------------------------------------------------
(* PaperExecutor, called directly *)

\* PaperExecutor.buy
PaperBuy(snap, usd_amount) ==
    LET ex == ExecBuy("paper", vpos[snap.mint], snap, usd_amount, now, "ok")
    IN /\ trade_count < MaxTrades
       /\ SetLedger(snap.mint, ex)
       /\ lastCall' = [StratCall("buy", snap, IF ex.raised THEN "raised" ELSE "result",
                                 <<>>, ex.result)
                           EXCEPT !.arg = usd_amount]
       /\ UNCHANGED <<now, riskVars, positions, storage, exec_kind, jupiter, request_id,
                      inflight>>

\* PaperExecutor.sell, `pct` in hundredths of a percent
PaperSell(mint, pct) ==
    LET ex == ExecSell("paper", vpos[mint], mint, pct, now, "ok")
    IN /\ trade_count < MaxTrades
       /\ SetLedger(mint, ex)
       /\ lastCall' = [StratCall("sell", [NoSnap EXCEPT !.mint = mint],
                                 IF ex.raised THEN "raised" ELSE "result", <<>>,
                                 ex.result)
                           EXCEPT !.arg = pct]
       /\ UNCHANGED <<now, riskVars, positions, storage, exec_kind, jupiter, request_id,
                      inflight>>

\* buys of one mint for 10 and 20 USD at every price, sells of both mints of
\* 0.25%, 1%, 25%, 50%, 100% and 150%
PaperNext ==
    \/ \E snap \in PriceSnapshots : \E usd_amount \in {10, 20} : PaperBuy(snap, usd_amount)
    \/ \E mint \in Mints : \E pct \in {25, 100, 2500, 5000, 10000, 15000} :
          PaperSell(mint, pct)

SpecPaper == InitRisk /\ [][PaperNext]_vars

----------------------------------------------------------------------------
(* The driver of the lifecycle: it feeds signals of every mint and, for a   *)
(* mint with an open position, evaluates one snapshot with take_profits,    *)
(* then trailing_stop, then time_stop.  An exception ends the evaluation.   *)

\* the snapshots the driver feeds to on_signal
EntrySnapshots == [mint : Mints, price_usd : {1, 3}, liq_usd : {1000}, vol_5m_usd : {1000}]

\* the snapshots the driver evaluates open positions with
MarketSnapshots == [mint : Mints, price_usd : Prices, liq_usd : {1000},
                    vol_5m_usd : {1000}]

\* no evaluation is under way: the last call ended one, or was none of its steps
EvaluationIdle ==
    \/ lastCall.op \notin {"take_profits", "trailing_stop"}
    \/ lastCall.outcome = "raised"

LifecycleNext ==
    \/ EvaluationIdle /\ Tick
    \/ EvaluationIdle /\ \E snap \in EntrySnapshots : OnSignal(snap)
    \/ EvaluationIdle /\ \E snap \in MarketSnapshots :
                            positions[snap.mint] # NoPos /\ TakeProfits(snap)
    \/ ~EvaluationIdle /\ lastCall.op = "take_profits" /\ TrailingStop(lastCall.snap)
    \/ ~EvaluationIdle /\ lastCall.op = "trailing_stop" /\ TimeStop(lastCall.snap)

SpecLifecycle == Init /\ [][LifecycleNext]_vars

----------------------------------------------------------------------------
(* Properties *)

Open(m) == positions[m] # NoPos

\* C1: on_signal for a mint that already has an open position issues no buy and
\* leaves the position (and the paper ledger and the stored row) as they were, so
\* that a mint never gets a second PositionState.
C1_OnSignalKeepsOpenPosition ==
    [][(/\ lastCall'.op = "on_signal"
        /\ Open(lastCall'.snap.mint)
        /\ OnSignal(lastCall'.snap))
          => /\ positions' = positions
             /\ lastCall'.execCalls = <<>>
             /\ vpos' = vpos /\ trade_count' = trade_count /\ storage' = storage]_vars

\* an on_signal call has just returned None, with no buy, for a mint whose position is open
C1_Witness ==
    \E m \in Mints :
        /\ Open(m)
        /\ lastCall.op = "on_signal" /\ lastCall.snap.mint = m
        /\ lastCall.snap.price_usd > 0 /\ lastCall.snap.liq_usd >= MinLiquidityUsd
        /\ lastCall.execCalls = <<>> /\ lastCall.outcome = "none"

\* C2: while a position stays open, no call lowers its trailing_stop_price.
C2_StopNeverDecreases ==
    [][\A m \in Mints :
          (Open(m) /\ positions'[m] # NoPos)
          => positions'[m].trailing_stop_price >= positions[m].trailing_stop_price]_vars

\* the stop of an open position has been raised above its entry stop, and a
\* lifecycle check at a price below the high-water mark has run since
C2_Witness ==
    \E m \in Mints :
        /\ Open(m)
        /\ positions[m].trailing_stop_price > StopPrice(positions[m].entry_price_usd)
        /\ lastCall.op \in {"take_profits", "trailing_stop", "time_stop"}
        /\ lastCall.snap.mint = m
        /\ Fine(lastCall.snap.price_usd) < positions[m].high_water_mark

LevelCount(log, multiplier) ==
    Cardinality({i \in 1..Len(log) : log[i].level = multiplier})

\* C3: the partial-sell log of a position, in memory and as persisted, holds at
\* most one sell per take-profit level.
C3_LevelFiresOnce ==
    \A m \in Mints : \A i \in 1..Len(TakeProfitLevels) :
        /\ Open(m) =>
             LevelCount(positions[m].partial_sells, TakeProfitLevels[i].multiplier) <= 1
        /\ storage[m] # NoPos =>
             LevelCount(storage[m].partial_sells, TakeProfitLevels[i].multiplier) <= 1

\* take_profits has just been called at a price at or above a level that is already
\* in the log, and sold nothing
C3_Witness ==
    \E m \in Mints : \E i \in 1..Len(TakeProfitLevels) :
        /\ Open(m)
        /\ LevelCount(positions[m].partial_sells, TakeProfitLevels[i].multiplier) = 1
        /\ lastCall.op = "take_profits" /\ lastCall.snap.mint = m
        /\ Fine(lastCall.snap.price_usd)
              >= TakeProfitLevels[i].multiplier * positions[m].entry_price_usd
        /\ lastCall.execCalls = <<>>

\* C4: at most one on_signal per mint is in flight (suspended at the executor's
\* buy) at a time, so that at most one buy is issued for the mint.
C4_OneOnSignalInFlight ==
    \A m \in Mints :
        Cardinality({i \in DOMAIN inflight :
                        inflight[i].op = "on_signal" /\ inflight[i].snap.mint = m}) <= 1

\* C5 as stated: 0 <= r <= min(position_size_usd, daily_max_loss_usd + daily_pnl,
\* liq_usd / 10) for every size_usd result r.
C5_SizeWithinMin ==
    lastCall.op = "size_usd"
    => /\ lastCall.ret >= 0
       /\ lastCall.ret <= PositionSizeUsd
       /\ lastCall.ret <= DailyMaxLossUsd + daily_pnl
       /\ lastCall.ret * LiquidityRatio <= lastCall.snap.liq_usd

\* C5 as amended: 0 <= r <= max(0, min(position_size_usd, daily_max_loss_usd +
\* daily_pnl, liq_usd / 10)): the minimum is negative once the losses have passed
\* the daily cap, and size_usd then returns 0.
C5_SizeWithinMinOrZero ==
    lastCall.op = "size_usd"
    => /\ lastCall.ret >= 0
       /\ \/ lastCall.ret = 0
          \/ /\ lastCall.ret <= PositionSizeUsd
             /\ lastCall.ret <= DailyMaxLossUsd + daily_pnl
             /\ lastCall.ret * LiquidityRatio <= lastCall.snap.liq_usd

\* size_usd has returned a size cut down by the remaining budget
C5_Witness ==
    /\ lastCall.op = "size_usd"
    /\ lastCall.ret > 0
    /\ lastCall.ret < PositionSizeUsd
    /\ lastCall.ret = DailyMaxLossUsd + daily_pnl

Count(seq, x) == Cardinality({i \in 1..Len(seq) : seq[i] = x})

\* the seven conditions of allow_buy as the claim words them, on the state the
\* call leaves
C6_Conditions(snap) ==
    << [reason |-> "Daily loss limit exceeded",
        cond |-> DailyMaxLossUsd + daily_pnl <= 0],
       [reason |-> "Token in cooldown",
        cond |-> /\ token_cooldowns[snap.mint] # NoTime
                 /\ now - token_cooldowns[snap.mint] < CooldownSeconds],
       [reason |-> "Maximum concurrent positions reached",
        cond |-> Cardinality(active_positions) >= MaxConcurrentPositions],
       [reason |-> "Already have position in this token",
        cond |-> snap.mint \in active_positions],
       [reason |-> "Insufficient liquidity",
        cond |-> snap.liq_usd < MinLiquidityUsd],
       [reason |-> "Insufficient trading volume",
        cond |-> snap.vol_5m_usd < MinVolumeUsd],
       [reason |-> "Invalid price",
        cond |-> snap.price_usd <= 0] >>

C6_Exact(snap, call) ==
    LET conds == C6_Conditions(snap)
    IN /\ call.allowed = (call.reasons = <<>>)
       /\ \A k \in 1..Len(conds) :
             Count(call.reasons, conds[k].reason) = IF conds[k].cond THEN 1 ELSE 0
       /\ Len(call.reasons) = Cardinality({k \in 1..Len(conds) : conds[k].cond})

\* C6: allow_buy denies iff its reasons list is non-empty, and the list holds
\* exactly one entry for each of the seven conditions that is true, and no other.
C6_ReasonsExact ==
    [][(lastCall'.op = "allow_buy" /\ AllowBuy(lastCall'.snap))
          => C6_Exact(lastCall.snap, lastCall)']_vars

\* allow_buy has just denied a buy for four reasons at once, the cooldown among them
C6_Witness ==
    /\ lastCall.op = "allow_buy"
    /\ ~lastCall.allowed
    /\ Len(lastCall.reasons) >= 4
    /\ Count(lastCall.reasons, "Token in cooldown") = 1
    /\ Count(lastCall.reasons, "Invalid price") = 0

DayNotAdvanced == GetDayStart(now) <= daily_start_time

\* C7: after_fill adds its signed argument to the daily P&L; and whenever
\* daily_max_loss_usd + daily P&L <= 0 on a day that has not advanced, size_usd
\* returns 0 and allow_buy denies with "Daily loss limit exceeded".
C7_BudgetExhausted ==
    [][/\ (lastCall'.op = "after_fill" /\ DayNotAdvanced /\ AfterFill(lastCall'.arg))
             => daily_pnl' = daily_pnl + lastCall'.arg
       /\ (/\ lastCall'.op = "size_usd"
           /\ DayNotAdvanced /\ DailyMaxLossUsd + daily_pnl <= 0
           /\ SizeUsd(lastCall'.snap))
             => lastCall'.ret = 0
       /\ (/\ lastCall'.op = "allow_buy"
           /\ DayNotAdvanced /\ DailyMaxLossUsd + daily_pnl <= 0
           /\ AllowBuy(lastCall'.snap))
             => /\ ~lastCall'.allowed
                /\ Count(lastCall'.reasons, "Daily loss limit exceeded") = 1]_vars

\* after losses of exactly the daily cap, size_usd has returned 0 for a liquid token
C7_Witness ==
    /\ daily_pnl = -DailyMaxLossUsd
    /\ DayNotAdvanced
    /\ lastCall.op = "size_usd"
    /\ lastCall.ret = 0
    /\ lastCall.snap.liq_usd >= MinLiquidityUsd

\* C8: the gatekeeper's active-position set equals the set of mints with an open
\* PositionState.
C8_GatekeeperInSync == active_positions = {m \in Mints : Open(m)}

Persisted(m) ==
    /\ storage[m] # NoPos
    /\ storage[m].quantity = positions[m].quantity
    /\ storage[m].high_water_mark = positions[m].high_water_mark
    /\ storage[m].trailing_stop_price = positions[m].trailing_stop_price

\* C9: when a Strategy method returns having opened a position or having changed its
\* quantity, high-water mark or stop price, the row persisted for the mint carries
\* the position's quantity, high-water mark and stop price.
C9_ChangesArePersisted ==
    [][\A m \in Mints :
          (/\ positions'[m] # NoPos
           /\ lastCall'.outcome # "raised"
           /\ \/ ~Open(m)
              \/ positions'[m].quantity # positions[m].quantity
              \/ positions'[m].high_water_mark # positions[m].high_water_mark
              \/ positions'[m].trailing_stop_price # positions[m].trailing_stop_price)
          => Persisted(m)']_vars

\* the fields of the contract the Strategy reads from either executor
SharedResultFields == {"price_exec", "qty_base", "cost_usd", "fee_usd", "ts"}

\* C10: every result a buy or sell returned to the Strategy, from either executor,
\* carries the fields of the shared contract.
C10_ResultShape ==
    (lastCall.execCalls # <<>> /\ lastCall.result # NoResult)
    => SharedResultFields \subseteq DOMAIN lastCall.result

\* Scenario A's position: 50 tokens bought at 1.00
ScenarioAPosition ==
    [token_mint |-> "m1", entry_price_usd |-> Fine(1), quantity |-> 50000,
     entry_time |-> StartTime, high_water_mark |-> Fine(1),
     trailing_stop_price |-> StopPrice(Fine(1)), partial_sells |-> <<>>]

ScenarioASold(price) == [raised |-> FALSE, result |-> [price_exec |-> Fine(price)]]

ScenarioAAfter2x ==
    PartialSellPosition(ScenarioAPosition, TakeProfitLevels[1].fraction,
                        TakeProfitLevels[1].multiplier, ScenarioASold(2), StartTime)

ScenarioAAfter3x ==
    PartialSellPosition(ScenarioAAfter2x, TakeProfitLevels[2].fraction,
                        TakeProfitLevels[2].multiplier, ScenarioASold(3), StartTime)

\* the step is a take_profits call that sold: the position's quantity went down by
\* fraction x the quantity it had before the call and the log grew by one entry
\* carrying that quantity, the level and the reason
C11_SoldFromRemaining(m) ==
    LET old == positions[m]
        new == positions'[m]
        n == Len(old.partial_sells)
    IN /\ new # NoPos
       /\ Len(new.partial_sells) = n + 1
       /\ SubSeq(new.partial_sells, 1, n) = old.partial_sells
       /\ new.partial_sells[n + 1].reason = "take_profit"
       /\ \E i \in 1..Len(TakeProfitLevels) :
             /\ new.partial_sells[n + 1].level = TakeProfitLevels[i].multiplier
             /\ new.partial_sells[n + 1].quantity
                   = (old.quantity * TakeProfitLevels[i].fraction) \div PctDenominator
       /\ new.quantity = old.quantity - new.partial_sells[n + 1].quantity

\* C11: a take-profit partial sell takes fraction x the remaining quantity off the
\* position and logs one entry with the level and the reason "take_profit"; from 50
\* tokens the 2x level leaves 37.5 and the 3x level then leaves 28.125.
C11_PartialSellOfRemaining ==
    [][/\ ScenarioAAfter2x.quantity = 37500
       /\ ScenarioAAfter2x.partial_sells[1].level = 2
       /\ ScenarioAAfter3x.quantity = 28125
       /\ ScenarioAAfter3x.partial_sells[2].level = 3
       /\ (/\ lastCall'.op = "take_profits"
           /\ lastCall'.outcome = "result"
           /\ TakeProfits(lastCall'.snap))
          => C11_SoldFromRemaining(lastCall'.snap.mint)]_vars

\* a position has sold at 2x and then at 3x, the second sell a quarter of what the
\* first had left
C11_Witness ==
    \E m \in Mints :
        /\ Open(m)
        /\ Len(positions[m].partial_sells) = 2
        /\ positions[m].partial_sells[1].level = 2
        /\ positions[m].partial_sells[2].level = 3
        /\ positions[m].partial_sells[2].quantity < positions[m].partial_sells[1].quantity
        /\ lastCall.op = "take_profits" /\ lastCall.outcome = "result"

\* the last entry of the log persisted for the mint
LastLogged(m) == storage[m].partial_sells[Len(storage[m].partial_sells)]

\* the step is a full sell of the position `old` of mint m for `reason`: one sell was
\* issued, it sold the whole remaining quantity, the sell is logged with the reason and
\* the position is gone
FullSellIssued(m, old, reason) ==
    /\ Len(lastCall'.execCalls) = 1
    /\ lastCall'.execCalls[1].method = "sell"
    /\ lastCall'.outcome = "result"
    /\ lastCall'.result.qty_base = old.quantity
    /\ positions'[m] = NoPos
    /\ Len(storage'[m].partial_sells) = Len(old.partial_sells) + 1
    /\ LastLogged(m)'.reason = reason
    /\ LastLogged(m)'.quantity = old.quantity

\* the step issued no sell and changed nothing the Strategy or the executor keeps
NothingChanged ==
    /\ lastCall'.execCalls = <<>>
    /\ UNCHANGED <<positions, storage, vpos, trade_count>>

C12_Step(m, price) ==
    LET old == positions[m]
        new == positions'[m]
    IN /\ price > old.high_water_mark
          => /\ lastCall'.execCalls = <<>>
             /\ new = [old EXCEPT !.high_water_mark = price,
                                  !.trailing_stop_price = StopPrice(price)]
             /\ UNCHANGED <<vpos, trade_count>>
       /\ price * PctDenominator <= old.trailing_stop_price
          => FullSellIssued(m, old, "trailing_stop")
       /\ (/\ price * PctDenominator > old.trailing_stop_price
           /\ price < old.high_water_mark)
          => NothingChanged

\* C12: trailing_stop above the high-water mark moves the mark to the price and the
\* stop to price x (1 - trailing_stop_pct) and sells nothing; at or below the stop it
\* issues one sell of the whole remaining quantity, logs it with reason
\* "trailing_stop" and removes the position; strictly between the stop and the mark it
\* sells nothing and changes nothing.
C12_TrailingStop ==
    [][\A snap \in PriceSnapshots :
          (/\ lastCall'.op = "trailing_stop"
           /\ lastCall'.snap = snap
           /\ Open(snap.mint)
           /\ TrailingStop(snap))
          => C12_Step(snap.mint, Fine(snap.price_usd))]_vars

\* C13: time_stop issues one sell of the whole remaining quantity, logged with reason
\* "time_stop", and removes the position if the time since entry is at least
\* max_hold_time_hours; otherwise it issues no sell and changes nothing.
C13_TimeStop ==
    [][\A snap \in PriceSnapshots :
          (/\ lastCall'.op = "time_stop"
           /\ lastCall'.snap = snap
           /\ Open(snap.mint)
           /\ TimeStop(snap))
          => IF now - positions[snap.mint].entry_time >= MaxHoldTime
             THEN FullSellIssued(snap.mint, positions[snap.mint], "time_stop")
             ELSE NothingChanged]_vars

DayCheckingCall ==
    \/ lastCall'.op = "daily_pnl" /\ DailyPnl
    \/ lastCall'.op = "size_usd" /\ SizeUsd(lastCall'.snap)
    \/ lastCall'.op = "allow_buy" /\ AllowBuy(lastCall'.snap)
    \/ lastCall'.op = "after_fill" /\ AfterFill(lastCall'.arg)

\* what the call returned is what it returns on a day that has just begun
ResultOfFreshDay(call) ==
    /\ call.op = "daily_pnl" => call.ret = 0
    /\ call.op = "size_usd"
       => call.ret = Min(Min(PositionSizeUsd, DailyMaxLossUsd),
                         call.snap.liq_usd \div LiquidityRatio)
    /\ call.op = "allow_buy"
       => /\ Count(call.reasons, "Daily loss limit exceeded") = 0
          /\ Count(call.reasons, "Token in cooldown") = 0

\* C15: daily_pnl, size_usd, allow_buy and after_fill first compare the midnight of
\* the current time with the stored day start; if it is later, the daily P&L is zeroed,
\* the cooldowns are cleared and the day start advanced before the result is computed;
\* otherwise nothing is reset; the active set and the recorded sizes never change.
C15_DayBoundaryReset ==
    [][DayCheckingCall
       => LET added == IF lastCall'.op = "after_fill" THEN lastCall'.arg ELSE 0
          IN /\ UNCHANGED <<active_positions, position_sizes>>
             /\ IF GetDayStart(now) > daily_start_time
                THEN /\ daily_pnl' = added
                     /\ daily_start_time' = GetDayStart(now)
                     /\ token_cooldowns' = [m \in Mints |-> NoTime]
                     /\ ResultOfFreshDay(lastCall)'
                ELSE /\ daily_pnl' = daily_pnl + added
                     /\ daily_start_time' = daily_start_time
                     /\ token_cooldowns' = token_cooldowns]_vars

\* allow_buy has just run on a new day with a position still recorded from the day
\* before: the day start has advanced and the cooldowns are gone
C15_Witness ==
    /\ lastCall.op = "allow_buy"
    /\ daily_start_time > GetDayStart(StartTime)
    /\ daily_start_time = GetDayStart(now)
    /\ active_positions # {}
    /\ daily_pnl = 0
    /\ \A m \in Mints : token_cooldowns[m] = NoTime
    /\ Count(lastCall.reasons, "Already have position in this token") = 1

\* the step is an allow_buy for a mint whose cooldown was set at token_cooldowns[mint]
\* and has not been cleared before the call
AllowBuyAfterSetCooldown(snap) ==
    /\ lastCall'.op = "allow_buy"
    /\ lastCall'.snap = snap
    /\ token_cooldowns[snap.mint] # NoTime
    /\ AllowBuy(snap)

CooldownFired(call) == Count(call.reasons, "Token in cooldown") = 1

NodeErrorResponse(error) == [result |-> NoResult, error |-> error]

\* a result answers a post
ResultResponse(result) == [result |-> result, error |-> NoError]

\* the suspended method returns or raises to its caller without another post
CompletesWith(task, outcome, result, error) ==
    /\ request_id' = request_id
    /\ inflight' = <<>>
    /\ lastCall'.op = task.op
    /\ lastCall'.outcome = outcome
    /\ lastCall'.result = result
    /\ lastCall'.error = error
    /\ lastCall'.requests = task.requests

\* C17: an attempt that fails with a node error whose code is outside
\* {-32603, -32005, -32004, 429} is not retried: no further request is posted
\* and that error is raised to the caller; when it is the first attempt of
\* simulate, send or get_latest_blockhash, exactly one request was made
C17_NonRetryableNotRetried ==
    [][\A i \in DOMAIN inflight : \A error \in NodeErrors :
          (/\ error.code \notin {-32603, -32005, -32004, 429}
           /\ RpcResponse(i, NodeErrorResponse(error)))
          => /\ CompletesWith(inflight[i], "raised", NoResult, error)
             /\ (inflight[i].op \in SimpleOps /\ inflight[i].attempt = 1)
                    => lastCall'.requests = 1]_vars

\* send raised an invalid-params error after exactly one request
C17_Witness ==
    /\ lastCall.op = "send"
    /\ lastCall.outcome = "raised"
    /\ lastCall.error = SolanaRpcError(-32602, "node")
    /\ lastCall.requests = 1
    /\ request_id = 1

\* the errors C18 calls retryable
C18_Retryable(error) ==
    \/ error.type \in {"TimeoutException", "ConnectError", "NetworkError"}
    \/ error.type = "SolanaRpcError" /\ error.code \in {-32603, -32005, -32004, 429}

\* C18: a remote call is attempted at most 3 times; a retryable failure of
\* attempt 1 or 2 is followed by another post, the first successful attempt's
\* result is what simulate, send and get_latest_blockhash return, and a
\* retryable failure of attempt 3 is followed by no post and is raised by them
C18_BoundedRetry ==
    [][\A i \in DOMAIN inflight : \A resp \in Responses(inflight[i].op) :
          RpcResponse(i, resp)
          => LET task == inflight[i]
             IN /\ task.attempt <= 3
                /\ (resp.error = NoError /\ task.op \in SimpleOps)
                      => CompletesWith(task, "result", resp.result, NoError)
                /\ (C18_Retryable(resp.error) /\ task.attempt < 3)
                      => /\ request_id' = request_id + 1
                         /\ inflight' = [inflight EXCEPT ![i].attempt = task.attempt + 1,
                                                         ![i].requests = task.requests + 1]
                         /\ lastCall' = lastCall
                /\ (C18_Retryable(resp.error) /\ task.attempt = 3)
                      => /\ request_id' = request_id
                         /\ task.op \in SimpleOps
                               => /\ CompletesWith(task, "raised", NoResult, resp.error)
                                  /\ lastCall'.requests = 3]_vars

\* send raised the rate-limit error of its third attempt
C18_Witness ==
    /\ lastCall.op = "send"
    /\ lastCall.outcome = "raised"
    /\ lastCall.error = SolanaRpcError(429, "node")
    /\ lastCall.requests = 3
    /\ inflight = <<>>

\* send returned the signature of its second attempt
C18_SecondAttemptSucceeded ==
    /\ lastCall.op = "send"
    /\ lastCall.outcome = "result"
    /\ lastCall.result = RpcResult("signature", NoTxErr, "none")
    /\ lastCall.requests = 2

\* C19: when a poll of confirm_signature returns a status with err != null,
\* the call raises a node error at once: no further request is posted, and
\* the call has ended, so it reports neither success nor a timeout
C19_FailedStatusRaises ==
    [][\A i \in DOMAIN inflight : \A status \in Statuses \ {NoStatus} :
          (/\ inflight[i].op = "confirm_signature"
           /\ status.err # NoTxErr
           /\ RpcResponse(i, ResultResponse(status)))
          => CompletesWith(inflight[i], "raised", NoResult,
                           SolanaRpcError(-1, "Transaction failed"))]_vars

\* confirm_signature raised on the failed status of its second poll
C19_Witness ==
    /\ lastCall.op = "confirm_signature"
    /\ lastCall.outcome = "raised"
    /\ lastCall.error = SolanaRpcError(-1, "Transaction failed")
    /\ lastCall.requests = 2
    /\ inflight = <<>>

\* processed < confirmed < finalized
LevelRank(level) ==
    CASE level = "processed" -> 1
      [] level = "confirmed" -> 2
      [] level = "finalized" -> 3

\* C20: confirm_signature returns the polled status on the first poll whose
\* status has err = null and a confirmation level at or above the requested
\* commitment
C20_ReturnsWhenReached ==
    [][\A i \in DOMAIN inflight : \A status \in Statuses \ {NoStatus} :
          (/\ inflight[i].op = "confirm_signature"
           /\ status.err = NoTxErr
           /\ LevelRank(status.confirmationStatus) >= LevelRank(inflight[i].arg)
           /\ RpcResponse(i, ResultResponse(status)))
          => CompletesWith(inflight[i], "result", status, NoError)]_vars

\* what the code does instead: it returns on a status at exactly the requested
\* level, or on any found status when "processed" was requested
C20_ReturnsWhenEqual ==
    [][\A i \in DOMAIN inflight : \A status \in Statuses \ {NoStatus} :
          (/\ inflight[i].op = "confirm_signature"
           /\ status.err = NoTxErr
           /\ RpcResponse(i, ResultResponse(status)))
          => IF status.confirmationStatus = inflight[i].arg \/ inflight[i].arg = "processed"
             THEN CompletesWith(inflight[i], "result", status, NoError)
             ELSE /\ inflight'[i].at = "sleep"
                  /\ UNCHANGED <<request_id, lastCall>>]_vars

\* confirm_signature asked for "confirmed" timed out although its polls were answered
C20_TimedOut ==
    /\ lastCall.op = "confirm_signature"
    /\ lastCall.arg = "confirmed"
    /\ lastCall.outcome = "raised"
    /\ lastCall.error = PlainError("TimeoutError")

\* the three ways confirm_signature may end, for the task that ended
ConfirmEndsThreeWay(task) ==
    \/ /\ lastCall'.outcome = "result"
       /\ lastCall'.result \in Statuses \ {NoStatus}
       /\ lastCall'.result.err = NoTxErr
       /\ LevelRank(lastCall'.result.confirmationStatus) >= LevelRank(task.arg)
    \/ /\ lastCall'.outcome = "raised"
       /\ lastCall'.error = SolanaRpcError(-1, "Transaction failed")
    \/ /\ lastCall'.outcome = "raised"
       /\ lastCall'.error = PlainError("TimeoutError")
       /\ now >= task.end_time

\* C21: a confirm_signature call ends by returning a status that reached the
\* commitment, by raising the node error of a failed transaction, or by
\* raising TimeoutError at or after the deadline; a polling request that
\* fails does not end the call
C21_ThreeWayTermination ==
    [][\A i \in DOMAIN inflight :
          inflight[i].op = "confirm_signature"
          => /\ inflight' = <<>> => ConfirmEndsThreeWay(inflight[i])
             /\ \A error \in NodeErrors \cup TransportErrors :
                   RpcResponse(i, NodeErrorResponse(error)) => inflight' # <<>>]_vars

\* what the code does: a polling request that fails with a SolanaRpcError
\* ends the call with that error, and one that fails in the transport does not
C21_TerminationWithPollErrors ==
    [][\A i \in DOMAIN inflight :
          inflight[i].op = "confirm_signature"
          => /\ inflight' = <<>>
                   => \/ ConfirmEndsThreeWay(inflight[i])
                      \/ /\ lastCall'.outcome = "raised"
                         /\ lastCall'.error \in NodeErrors
             /\ \A error \in TransportErrors :
                   RpcResponse(i, NodeErrorResponse(error)) => inflight' # <<>>]_vars

\* confirm_signature raised the node error of its polling request before the deadline
C21_PollErrorEndedWait ==
    /\ lastCall.op = "confirm_signature"
    /\ lastCall.outcome = "raised"
    /\ lastCall.error \in NodeErrors
    /\ now = StartTime

\* C22: simulate never raises for a simulation failure: a report whose err
\* is not null is returned to the caller as the result of the call
C22_SimulationFailureIsData ==
    [][\A i \in DOMAIN inflight : \A report \in NodeResults("simulate") :
          (/\ inflight[i].op = "simulate"
           /\ report.err # NoTxErr
           /\ RpcResponse(i, ResultResponse(report)))
          => CompletesWith(inflight[i], "result", report, NoError)]_vars

\* simulate returned a report that holds an error
C22_Witness ==
    /\ lastCall.op = "simulate"
    /\ lastCall.outcome = "result"
    /\ lastCall.result = RpcResult("simulation", "InstructionError", "none")
    /\ lastCall.error = NoError

\* the names of the collaborator calls in a call log
CallNames(calls) == [n \in DOMAIN calls |-> calls[n][1]]

\* an executor constructed without a signer or without a sender
LiveTradingDisabled == ~(jupiter.signer /\ jupiter.sender)

\* C23: without a signer or a sender, buy and sell raise the "live trading
\* disabled" error before any quote, build, sign, simulate or send call, and
\* simulate still returns a result after calling nothing but the quote
C23_DisabledFailsFast ==
    [][LiveTradingDisabled
          => /\ \A op \in {"buy", "sell"} : \A ov \in Overrides :
                   JupCall(op, ov)
                   => /\ lastCall'.outcome = "raised"
                      /\ lastCall'.error = PlainError("NotImplementedError")
                      /\ lastCall'.calls = <<>>
                      /\ inflight' = <<>>
             /\ \A i \in DOMAIN inflight :
                   /\ inflight[i].op = "simulate"
                   /\ JupQuoteReturns(i, "routes")
                         => /\ lastCall'.op = "simulate"
                            /\ lastCall'.outcome = "result"
                            /\ CallNames(lastCall'.calls) = <<"quote">>
                            /\ inflight' = <<>>]_vars

\* buy was refused by an executor that has a signer and no sender
C23_Witness ==
    /\ jupiter.signer
    /\ ~jupiter.sender
    /\ lastCall.op = "buy"
    /\ lastCall.outcome = "raised"
    /\ lastCall.error = PlainError("NotImplementedError")
    /\ lastCall.calls = <<>>

\* simulate returned a result from an executor that has no signer and no sender
C23_SimulateStillWorks ==
    /\ ~jupiter.signer
    /\ ~jupiter.sender
    /\ lastCall.op = "simulate"
    /\ lastCall.outcome = "result"

\* C24: with preflight enabled, whatever sender.simulate answers (a success
\* report, a report that holds an error, an exception) the routine goes on to
\* call send, and the trade returns the signature send returned
C24_SimulationNeverAborts ==
    [][\A i \in DOMAIN inflight :
          /\ \A answer \in {"ok", "err_report", "raises"} :
                (jupiter.enable_preflight /\ JupSimulateReturns(i, answer))
                => /\ Len(inflight') = Len(inflight)
                   /\ inflight'[i].at = "send"
                   /\ CallNames(inflight'[i].calls)
                         = Append(CallNames(inflight[i].calls), "send")
                   /\ lastCall' = lastCall
          /\ (jupiter.enable_preflight /\ JupSendReturns(i, "signature"))
                => /\ lastCall'.outcome = "result"
                   /\ lastCall'.result.sig = "signature"
                   /\ CallNames(lastCall'.calls)
                         = <<"quote", "pubkey_base58", "build", "sign", "simulate", "send">>]_vars

\* a trade with preflight enabled returned its signature
C24_Witness ==
    /\ jupiter.enable_preflight
    /\ lastCall.op = "sell"
    /\ lastCall.outcome = "result"
    /\ lastCall.result.sig = "signature"
    /\ CallNames(lastCall.calls)[5] = "simulate"

\* the order of the steps of a trade, with and without the pre-send simulation
StepOrder ==
    IF jupiter.enable_preflight
    THEN <<"quote", "pubkey_base58", "build", "sign", "simulate", "send">>
    ELSE <<"quote", "pubkey_base58", "build", "sign", "send">>

IsPrefix(s, t) == Len(s) <= Len(t) /\ s = SubSeq(t, 1, Len(s))

\* C25: the calls of a trade are made in the order quote, build, sign,
\* optional simulate, send, each once; a quote without a route raises after
\* the quote alone, and a build response without transaction bytes raises
\* after the build with no sign, simulate or send call
C25_StepsInOrder ==
    [][/\ \A i \in DOMAIN inflight' : IsPrefix(CallNames(inflight'[i].calls), StepOrder)
       /\ IsPrefix(CallNames(lastCall'.calls), StepOrder)
       /\ \A i \in DOMAIN inflight :
             /\ JupQuoteReturns(i, "no_routes")
                   => /\ lastCall'.outcome = "raised"
                      /\ lastCall'.error.type = "ValueError"
                      /\ CallNames(lastCall'.calls) = <<"quote">>
                      /\ inflight' = <<>>
             /\ JupBuildReturns(i, "no_tx")
                   => /\ lastCall'.outcome = "raised"
                      /\ lastCall'.error.type = "ValueError"
                      /\ CallNames(lastCall'.calls) = <<"quote", "pubkey_base58", "build">>
                      /\ inflight' = <<>>]_vars

\* a trade raised on a build response without transaction bytes
C25_Witness ==
    /\ lastCall.op = "buy"
    /\ lastCall.outcome = "raised"
    /\ lastCall.error.message = "No swap transaction in response"
    /\ Len(lastCall.calls) = 3

\* the effective value of an optional field: the override when one is given,
\* the configured value otherwise
C26_Effective(field, ov) ==
    CASE field = "computeUnitPriceMicroLamports" ->
             IF ov.priority_fee_micro = NoOverride THEN jupiter.priority_fee_microlamports
             ELSE ov.priority_fee_micro
      [] field = "computeUnitLimit" ->
             IF ov.compute_unit_limit = NoOverride THEN jupiter.compute_unit_limit
             ELSE ov.compute_unit_limit
      [] field = "prioritizationFeeLamports" ->
             IF ov.jito_tip_lamports = NoOverride THEN jupiter.jito_tip_lamports
             ELSE ov.jito_tip_lamports

C26_FieldsOf(calls, ov) ==
    \A n \in DOMAIN calls :
        calls[n][1] = "build"
        => \A field \in {"computeUnitPriceMicroLamports", "computeUnitLimit",
                         "prioritizationFeeLamports"} :
              /\ field \in DOMAIN calls[n][2] <=> C26_Effective(field, ov) > 0
              /\ field \in DOMAIN calls[n][2]
                    => calls[n][2][field] = C26_Effective(field, ov)

\* C26: the swap-build request holds computeUnitPriceMicroLamports,
\* computeUnitLimit and prioritizationFeeLamports exactly when the effective
\* value of the field is above zero, and then with that value
C26_OptionalFieldsIffPositive ==
    /\ \A i \in DOMAIN inflight : C26_FieldsOf(inflight[i].calls, inflight[i].arg)
    /\ C26_FieldsOf(lastCall.calls, lastCall.arg)

\* a build request where an override of zero removed a configured field and
\* another override added a field configured as zero
C26_Witness ==
    /\ jupiter.priority_fee_microlamports = 5
    /\ jupiter.compute_unit_limit = 0
    /\ jupiter.jito_tip_lamports = 5
    /\ Len(lastCall.calls) >= 3
    /\ lastCall.arg.priority_fee_micro = 0
    /\ lastCall.arg.compute_unit_limit = 7
    /\ lastCall.arg.jito_tip_lamports = NoOverride
    /\ DOMAIN lastCall.calls[3][2] = {"computeUnitLimit", "prioritizationFeeLamports"}

\* a sell step of the paper executor for `mint`
SellStepOf(mint) ==
    /\ lastCall'.op = "sell"
    /\ lastCall'.snap.mint = mint
    /\ \E pct \in {25, 100, 2500, 5000, 10000, 15000} : PaperSell(mint, pct)

\* C27: PaperExecutor.sell for a mint without a virtual position raises and
\* changes neither the ledger nor the trade history
C27_SellWithoutPositionRaises ==
    [][\A mint \in Mints :
          (SellStepOf(mint) /\ vpos[mint] = NoPos)
          => /\ lastCall'.outcome = "raised"
             /\ vpos' = vpos
             /\ trade_count' = trade_count]_vars

\* a sell was refused while the ledger held a position of another mint
C27_Witness ==
    /\ lastCall.op = "sell"
    /\ lastCall.snap.mint = "m2"
    /\ lastCall.outcome = "raised"
    /\ vpos["m2"] = NoPos
    /\ vpos["m1"] # NoPos
    /\ trade_count = 1

\* the quantity a ledger entry holds: none when there is no entry
LedgerQty(vp) == IF vp = NoPos THEN 0 ELSE vp.qty_base

\* C28: PaperExecutor.sell(token, pct) on an existing position sells
\* min(quantity * pct / 100, quantity); the quantity left is the old one less
\* the sold one and not negative, a sell of 100% or more removes the
\* position, and a smaller one leaves a position of positive quantity
C28_SellCapsAndReduces ==
    [][\A mint \in Mints :
          (SellStepOf(mint) /\ vpos[mint] # NoPos)
          => LET old == vpos[mint].qty_base
                 pct == lastCall'.arg
                 sold == lastCall'.result.qty_base
             IN /\ lastCall'.outcome = "result"
                /\ sold = Min((old * pct) \div 10000, old)
                /\ LedgerQty(vpos'[mint]) = old - sold
                /\ LedgerQty(vpos'[mint]) >= 0
                /\ pct >= 10000 => vpos'[mint] = NoPos
                /\ pct < 10000 => vpos'[mint] # NoPos /\ vpos'[mint].qty_base > 0
                /\ trade_count' = trade_count + 1]_vars

\* a sell of 150% sold what the position held and removed it
C28_Witness ==
    /\ lastCall.op = "sell"
    /\ lastCall.arg = 15000
    /\ lastCall.outcome = "result"
    /\ lastCall.result.qty_base > 0
    /\ vpos[lastCall.snap.mint] = NoPos
    /\ trade_count = 3

\* from_dict(to_dict(p)) has the seven fields of p with the values of p
RoundTrips(p) ==
    LET q == FromDict(ToDict(p))
    IN /\ q.token_mint = p.token_mint
       /\ q.entry_price_usd = p.entry_price_usd
       /\ q.quantity = p.quantity
       /\ q.entry_time = p.entry_time
       /\ q.high_water_mark = p.high_water_mark
       /\ q.trailing_stop_price = p.trailing_stop_price
       /\ q.partial_sells = p.partial_sells
       /\ DOMAIN q = DOMAIN p

SoldByLifecycle ==
    /\ lastCall.op \in {"take_profits", "trailing_stop", "time_stop"}
    /\ lastCall.execCalls # <<>>
    /\ lastCall.outcome # "raised"

\* C30: against PaperExecutor, after every take-profit, trailing-stop or
\* time-stop sell the Strategy's remaining quantity of the mint equals the
\* quantity in the paper ledger, and the mint has a ledger entry exactly when
\* it has an open PositionState
C30_StrategyMatchesLedger ==
    (exec_kind = "paper" /\ SoldByLifecycle)
    => LET mint == lastCall.snap.mint
       IN /\ vpos[mint] # NoPos <=> positions[mint] # NoPos
          /\ positions[mint] # NoPos => positions[mint].quantity = vpos[mint].qty_base

\* before any sell the two quantities agree: the first buy is recorded alike
C30_AgreeAfterBuy ==
    (exec_kind = "paper" /\ lastCall.op = "on_signal" /\ lastCall.outcome = "result"
        /\ trade_count = 1)
    => positions[lastCall.snap.mint].quantity = vpos[lastCall.snap.mint].qty_base

\* the step is an on_signal call whose buy completed: the executor was called and
\* returned a result
BuyCompleted ==
    /\ lastCall'.op = "on_signal"
    /\ lastCall'.execCalls # <<>>
    /\ lastCall'.result # NoResult

\* after the step the mint of the call has an open PositionState built from the
\* fill, the row persisted for it is that position, and after_fill was called once
TrackedFromFill ==
    LET mint == lastCall'.snap.mint
        r == lastCall'.result
        p == positions'[mint]
    IN /\ p # NoPos
       /\ p.entry_price_usd = r.price_exec
       /\ p.high_water_mark = r.price_exec
       /\ p.quantity = r.qty_base
       /\ p.trailing_stop_price = r.price_exec * (PctDenominator - TrailingStopPct)
       /\ p.partial_sells = <<>>
       /\ storage'[mint] = ToDict(p)
       /\ Count(lastCall'.riskCalls, "after_fill") = 1

\* C31: whenever on_signal was approved with a positive size and the executor's buy
\* completed, with either executor, on_signal leaves an open PositionState with entry
\* price and high-water mark at the fill price, the filled quantity and the stop at
\* fill price x (1 - trailing_stop_pct), persists it and calls after_fill once: no
\* completed buy is left without a tracked position.
C31_CompletedBuyIsTracked == [][BuyCompleted => TrackedFromFill]_vars

\* what the code does: a completed buy of PaperExecutor is tracked
C31_PaperBuyIsTracked ==
    [][(BuyCompleted /\ exec_kind = "paper") => TrackedFromFill]_vars

\* a live buy has completed and the mint has no PositionState
C31_LiveBuyUntracked ==
    /\ exec_kind = "live"
    /\ lastCall.op = "on_signal"
    /\ lastCall.execCalls # <<>>
    /\ lastCall.result # NoResult
    /\ ~Open(lastCall.snap.mint)

\* the last call ended an evaluation of one snapshot that left the position open
EvaluatedAndOpen(m) ==
    /\ lastCall.op = "time_stop"
    /\ lastCall.snap.mint = m
    /\ Open(m)

\* C32: after an evaluation of one snapshot for an open position (take_profits, then
\* trailing_stop, then time_stop) that does not close the position, the stop price is
\* at least high_water_mark x (1 - trailing_stop_pct), for every price sequence.
C32_StopTracksHighWaterMark ==
    \A m \in Mints :
        EvaluatedAndOpen(m)
        => positions[m].trailing_stop_price
              >= positions[m].high_water_mark * (PctDenominator - TrailingStopPct)

\* what the code does: under the fixed order the stop stays where on_signal put it,
\* at entry price x (1 - trailing_stop_pct), while the high-water mark follows the price
C32_StopStaysAtEntry ==
    \A m \in Mints :
        Open(m) => /\ positions[m].trailing_stop_price
                         = positions[m].entry_price_usd * (PctDenominator - TrailingStopPct)
                   /\ positions[m].high_water_mark >= positions[m].entry_price_usd

\* an evaluation has left a position open whose mark is above its entry price
C32_MarkAboveEntry ==
    \E m \in Mints :
        /\ EvaluatedAndOpen(m)
        /\ positions[m].high_water_mark > positions[m].entry_price_usd

\* C33: the number of simultaneously open PositionStates never exceeds
\* max_concurrent_positions, for any sequence of on_signal calls on distinct mints
\* interleaved with lifecycle checks.
C33_OpenWithinMaxConcurrent ==
    Cardinality({m \in Mints : Open(m)}) <= MaxConcurrentPositions

\* what the code does: the gatekeeper's own set never grows, so its count never
\* reaches max_concurrent_positions
C33_GatekeeperCountsNothing == active_positions = {}

\* C34 is about two lifecycle checks of one mint suspended together at the executor's
\* sell.  A sell is awaited only for a mint with an open PositionState, and only
\* JupiterExecutor's sell suspends: with JupiterExecutor no PositionState is ever
\* open, so no state holds such a pair.
C34_SuspendingExecutorNeverOpens ==
    Suspends(exec_kind) => \A m \in Mints : ~Open(m)

\* the daily P&L as the gatekeeper reports it at time t
ReportedDailyPnl(rs, t) == ResetDailyIfNeeded(rs, t).daily_pnl

\* the step is a call whose executor call raised: the executor was called and gave
\* no result
ExecutorRaised ==
    /\ lastCall'.execCalls # <<>>
    /\ lastCall'.outcome = "raised" \/ lastCall'.op = "on_signal"
    /\ lastCall'.result = NoResult

C35_NoSellRaises ==
    ~(/\ lastCall.op \in {"take_profits", "trailing_stop", "time_stop"}
      /\ lastCall.execCalls # <<>>
      /\ lastCall.result = NoResult)

\* the step is a lifecycle check that sold below the position's entry price: the
\* Strategy realized a loss on the quantity it logged
SoldAtLoss ==
    /\ lastCall'.op \in {"take_profits", "trailing_stop", "time_stop"}
    /\ lastCall'.execCalls # <<>>
    /\ lastCall'.outcome = "result"
    /\ Open(lastCall'.snap.mint)
    /\ lastCall'.result.price_exec < positions[lastCall'.snap.mint].entry_price_usd

\* C36: realized losses of the Strategy's sells count against the daily budget, so
\* that once the sells of one calendar day have lost daily_max_loss_usd on_signal
\* opens no further position that day: a sell that realizes a loss lowers the daily
\* P&L the gatekeeper sizes and approves buys from.
C36_LossesCountAgainstBudget ==
    [][SoldAtLoss
        => ReportedDailyPnl(RiskState, now)' < ReportedDailyPnl(RiskState, now)]_vars

\* what the code does: the Strategy reports after_fill(0) only, so the daily P&L it
\* drives never leaves zero and the remaining budget stays at daily_max_loss_usd
C36_DailyPnlNeverMoves == daily_pnl = 0 /\ RemainingDailyBudget(RiskState) = DailyMaxLossUsd

\* level i of the ladder is reached at `price` and not yet in the log of `old`
ReachedAndUnlogged(old, price, i) ==
    /\ price >= TakeProfitLevels[i].multiplier * old.entry_price_usd
    /\ LevelCount(old.partial_sells, TakeProfitLevels[i].multiplier) = 0

\* the take_profits step for mint m at `price`: no sell when no level is reached and
\* unlogged, otherwise one sell, for the first such level in configured order
C37_Step(m, price) ==
    LET old == positions[m]
        new == positions'[m]
        reached == {i \in 1..Len(TakeProfitLevels) : ReachedAndUnlogged(old, price, i)}
    IN /\ Len(lastCall'.execCalls) <= 1
       /\ reached = {} <=> lastCall'.execCalls = <<>>
       /\ reached # {}
             => \E i \in reached :
                   /\ \A j \in reached : i <= j
                   /\ lastCall'.execCalls[1] = ExecCall("sell", m, TakeProfitLevels[i].fraction)
                   /\ lastCall'.outcome = "result"
                         => /\ new # NoPos
                            /\ Len(new.partial_sells) = Len(old.partial_sells) + 1
                            /\ new.partial_sells[Len(new.partial_sells)].level
                                  = TakeProfitLevels[i].multiplier

\* C37: one take_profits call issues at most one sell: it sells for the first level in
\* configured order whose multiplier is reached and which is not yet logged, and
\* returns; the levels left fire on later calls, one per call, in configured order.
C37_OneLevelPerCall ==
    [][\A snap \in PriceSnapshots :
          (/\ lastCall'.op = "take_profits"
           /\ lastCall'.snap = snap
           /\ Open(snap.mint)
           /\ TakeProfits(snap))
          => C37_Step(snap.mint, Fine(snap.price_usd))]_vars

\* a call at a price that reaches both levels found the first level logged by an
\* earlier call and sold for the second
C37_Witness ==
    /\ Open("m1")
    /\ lastCall.op = "take_profits"
    /\ Fine(lastCall.snap.price_usd)
          >= TakeProfitLevels[2].multiplier * positions["m1"].entry_price_usd
    /\ Len(positions["m1"].partial_sells) = 2
    /\ positions["m1"].partial_sells[1].level = TakeProfitLevels[1].multiplier
    /\ positions["m1"].partial_sells[2].level = TakeProfitLevels[2].multiplier
    /\ positions["m1"].partial_sells[1].timestamp = positions["m1"].partial_sells[2].timestamp

\* what a position accounts for: the quantity it still holds and the quantities its
\* log records as sold
Accounted(position) == position.quantity + SoldQuantity(position.partial_sells)

\* every fraction of the ladder is in (0, 1]
FractionsInRange ==
    \A i \in 1..Len(TakeProfitLevels) :
        /\ TakeProfitLevels[i].fraction > 0
        /\ TakeProfitLevels[i].fraction <= PctDenominator

\* C38: under sequential calls, with ladder fractions in (0, 1], the remaining
\* quantity of an open position is never negative and the entry quantity equals the
\* remaining quantity plus the quantities of the partial-sell log: a new position
\* holds the bought quantity with an empty log, every call that leaves it open keeps
\* the sum, and when the position is removed the log saved for it sums to the entry
\* quantity.
C38_QuantityConserved ==
    [][FractionsInRange =>
        \A m \in Mints :
           /\ positions'[m] # NoPos => positions'[m].quantity >= 0
           /\ (~Open(m) /\ positions'[m] # NoPos)
                 => /\ positions'[m].partial_sells = <<>>
                    /\ positions'[m].quantity = lastCall'.result.qty_base
           /\ (Open(m) /\ positions'[m] # NoPos)
                 => Accounted(positions'[m]) = Accounted(positions[m])
           /\ (Open(m) /\ positions'[m] = NoPos)
                 => SoldQuantity(storage'[m].partial_sells) = Accounted(positions[m])]_vars

\* a position with a take-profit sell in its log was closed by a full sell, and the
\* two logged quantities sum to the bought quantity
C38_Witness ==
    /\ ~Open("m1")
    /\ lastCall.op \in {"trailing_stop", "time_stop"}
    /\ lastCall.outcome = "result"
    /\ Len(storage["m1"].partial_sells) = 2
    /\ storage["m1"].partial_sells[1].quantity > 0
    /\ storage["m1"].partial_sells[2].quantity > storage["m1"].partial_sells[1].quantity
    /\ SoldQuantity(storage["m1"].partial_sells)
          = QtyFor(PositionSizeUsd, storage["m1"].entry_price_usd)

\* C39: the record persisted under "position_" + mint shows a remaining quantity above
\* zero exactly when the mint has an open PositionState: once a position is closed by
\* take-profit, trailing stop or time stop, its last persisted record shows a remaining
\* quantity of zero.
C39_PersistedQuantityIffOpen ==
    \A m \in Mints :
        /\ storage[m] = NoPos => ~Open(m)
        /\ storage[m] # NoPos => (storage[m].quantity > 0 <=> Open(m))

\* what the code does: while a position is open its record holds its remaining
\* quantity, which is above zero
C39_OpenIsPersisted ==
    \A m \in Mints :
        Open(m) => /\ storage[m] # NoPos
                   /\ storage[m].quantity = positions[m].quantity
                   /\ storage[m].quantity > 0

\* a full sell has removed the position and the record saved after it still holds the
\* quantity the position had
C39_ClosedWithQuantity ==
    \E m \in Mints :
        /\ ~Open(m)
        /\ lastCall.op \in {"trailing_stop", "time_stop"}
        /\ lastCall.snap.mint = m
        /\ lastCall.outcome = "result"
        /\ storage[m].quantity > 0
        /\ storage[m].quantity = LastLogged(m).quantity

\* raise_for_status on an HTTP 500 answer
HttpServerError == [result |-> NoResult, error |-> PlainError("HTTPStatusError")]

\* C40: when the node answers a sendTransaction request with HTTP 500 and a later
\* attempt succeeds, RpcSender retries the send and the live buy returns the signature
\* of the successful attempt: an HTTP 500 answer to attempt 1 or 2 of send is followed
\* by another post, whose result send returns.
C40_SendRetriesHttp500 ==
    [][\A i \in DOMAIN inflight :
          (/\ inflight[i].op = "send"
           /\ inflight[i].attempt < StopAfterAttempt
           /\ RpcResponse(i, HttpServerError))
          => /\ request_id' = request_id + 1
             /\ inflight' = [inflight EXCEPT ![i].attempt = inflight[i].attempt + 1,
                                             ![i].requests = inflight[i].requests + 1]]_vars

\* what the code does: the HTTP 500 answer is raised to the caller of send without
\* another post
C40_Http500IsRaised ==
    [][\A i \in DOMAIN inflight :
          (inflight[i].op = "send" /\ RpcResponse(i, HttpServerError))
          => CompletesWith(inflight[i], "raised", NoResult, HttpServerError.error)]_vars

\* send raised the HTTP status error of its only request
C40_RaisedAfterOneRequest ==
    /\ lastCall.op = "send"
    /\ lastCall.outcome = "raised"
    /\ lastCall.error = PlainError("HTTPStatusError")
    /\ lastCall.requests = 1

====
